---- MODULE Spec2Model ----
(***************************************************************************)
(* Dual-engine used vehicle valuation (src/dual_engine_valuation.py).      *)
(*                                                                         *)
(* One call of value_vehicle is a run through the pipeline                 *)
(*   Normalizing -> RoutingEngine -> EngineComputing -> Blending           *)
(*               -> DealerPricing -> Done          (or Error on a raise).  *)
(*                                                                         *)
(* Number representation.  The source computes in binary floating point;   *)
(* the model carries                                                       *)
(*   - money in paise (1/100 rupee), rounded to the nearest paise after    *)
(*     each multiplication,                                                *)
(*   - fractions (percentages, weights, SoH) in parts per million,         *)
(*   - ages in 1/1000 year, exactly the three decimals age_from_reg_date   *)
(*     keeps.                                                              *)
(* Python's round() is round-half-to-even and is modelled as such.         *)
(* Strings on which the source calls strip/lower/upper/title/startswith/in *)
(* are sequences of one-character strings; None is the empty tuple and a   *)
(* present number v is <<v>>.                                              *)
(*                                                                         *)
(* Also modelled, each under a specification of its own:                   *)
(*   - two threads inside value_vehicle at once, SpecConc;                 *)
(*   - the depreciation grid in its three implementations, SpecGrid;       *)
(*   - InsuranceGradeValuationEngine.calculate_idv                         *)
(*     (src/insurance_grade_engine.py), SpecInsurance, in binary64;        *)
(*   - calculate_resale_value (src/vehicle_valuation.py), SpecResale;      *)
(*   - the batch endpoint (src/api_server.py), SpecBatch;                  *)
(*   - calculate_idv (src/idv_calculation.py), SpecIdv, whose arithmetic   *)
(*     is carried in binary64 because its 20% test turns on it.            *)
(***************************************************************************)
EXTENDS Integers, Sequences, FiniteSets

VARIABLES pc, payload, today, log, norm, metrics, route, eng, blend, dealer, out, seen,
          parked, resale, batch, idv, grids, insurance

vars == <<pc, payload, today, log, norm, metrics, route, eng, blend, dealer, out, seen,
          parked, resale, batch, idv, grids, insurance>>

(***************************************************************************)
(* Units and integer helpers                                               *)
(***************************************************************************)
PPM == 1000 * 1000
Paise == 10 * 10
Milli == 10 * 10 * 10

None == <<>>
Some(v) == <<v>>
IsNone(o) == o = <<>>
Val(o) == o[1]

Abs(x) == IF x < 0 THEN -x ELSE x
Max2(a, b) == IF a >= b THEN a ELSE b
Min2(a, b) == IF a <= b THEN a ELSE b

\* n / d rounded half to even (d > 0), as Python's round() of the quotient.
RoundDiv(n, d) ==
  LET q == n \div d
      r == n % d
  IN  IF 2 * r < d THEN q
      ELSE IF 2 * r > d THEN q + 1
      ELSE IF q % 2 = 0 THEN q ELSE q + 1

\* v * f / 10^6 to the nearest unit, computed by halves so that no
\* intermediate product leaves the 32-bit range.
Scale(v, f) ==
  LET vh == v \div Milli
      vl == v % Milli
      fh == f \div Milli
      fl == f % Milli
      mid == vh * fl + vl * fh
      low == vl * fl
      frac == (mid % Milli) * Milli + low      \* 0 .. 10^6 - 1 + carry
  IN  vh * fh + (mid \div Milli) + RoundDiv(frac, PPM)

(***************************************************************************)
(* Strings as sequences of characters                                      *)
(***************************************************************************)
LowerAlpha == <<"a","b","c","d","e","f","g","h","i","j","k","l","m","n","o","p","q","r","s","t","u","v","w","x","y","z">>
UpperAlpha == <<"A","B","C","D","E","F","G","H","I","J","K","L","M","N","O","P","Q","R","S","T","U","V","W","X","Y","Z">>

IsUpperCh(c) == \E i \in 1..26 : UpperAlpha[i] = c
IsLowerCh(c) == \E i \in 1..26 : LowerAlpha[i] = c
IsAlphaCh(c) == IsUpperCh(c) \/ IsLowerCh(c)
IsSpaceCh(c) == c \in {" ", "\t", "\n"}
LowerCh(c) == IF IsUpperCh(c) THEN LowerAlpha[CHOOSE i \in 1..26 : UpperAlpha[i] = c] ELSE c
UpperCh(c) == IF IsLowerCh(c) THEN UpperAlpha[CHOOSE i \in 1..26 : LowerAlpha[i] = c] ELSE c

\* str.lower(), str.upper()
lower(s) == [i \in 1..Len(s) |-> LowerCh(s[i])]
upper(s) == [i \in 1..Len(s) |-> UpperCh(s[i])]

\* str.title(): a letter that follows a non-letter is upper-cased, any other lower-cased
title(s) ==
  [i \in 1..Len(s) |->
     IF i = 1 \/ ~IsAlphaCh(s[i - 1]) THEN UpperCh(s[i]) ELSE LowerCh(s[i])]

\* str.strip()
strip(s) ==
  LET keep == {i \in 1..Len(s) : ~IsSpaceCh(s[i])}
  IN  IF keep = {} THEN <<>>
      ELSE LET lo == CHOOSE i \in keep : \A j \in keep : i <= j
               hi == CHOOSE i \in keep : \A j \in keep : i >= j
           IN  SubSeq(s, lo, hi)

\* str.startswith(p)
startswith(s, p) == Len(s) >= Len(p) /\ SubSeq(s, 1, Len(p)) = p

\* p in s
contains(s, p) ==
  \E i \in 0..(Len(s) - Len(p)) : SubSeq(s, i + 1, i + Len(p)) = p

(***************************************************************************)
(* CONFIG                                                                  *)
(***************************************************************************)
default_avg_annual_km == 10000

\* ice_depr_grid: breakpoint (1/1000 year) -> cumulative depreciation (ppm)
ice_depr_grid ==
  [k \in {500, 1000, 2000, 3000, 4000, 5000, 6000, 7000, 8000} |->
     CASE k = 500  -> 50000
       [] k = 1000 -> 100000
       [] k = 2000 -> 180000
       [] k = 3000 -> 250000
       [] k = 4000 -> 300000
       [] k = 5000 -> 350000
       [] k = 6000 -> 400000
       [] k = 7000 -> 450000
       [] k = 8000 -> 500000]
ice_depr_floor_after_8y == 600000
ice_expected_annual_km == 12000
\* per 1000 km, in ppm: 0.006 and 0.004
ice_mileage_penalty_per_1000km_over == 6000
ice_mileage_bonus_per_1000km_under == 4000
market_weight_age_under_3 == 700000
market_weight_age_3_to_6 == 600000
market_weight_age_over_6 == 500000
negotiation_buffer_default == 940000
south_multiplier == 1080000
\* 8.0 and 9.5 years, in 1/1000 year
ncr_diesel_panic_age_years == 8000
ncr_diesel_scrap_age_years == 9500
ncr_diesel_panic_penalty == 250000
ev_degradation_rate_nmc == 25000
ev_degradation_rate_lfp == 15000
ev_high_usage_threshold_km == 20000
ev_high_usage_rate_increase == 10000
ev_min_soh == 550000
\* rupees per kWh
ev_battery_replacement_cost_per_kwh == 30000
ev_min_market_blend == 300000
discontinued_penalty == 120000
new_gen_penalty == 70000

BodyTable == {"Hatchback", "Sedan", "SUV", "Luxury"}

\* CONFIG["dealer_margin"], ppm
dealer_margin ==
  [b \in BodyTable |->
     CASE b = "Hatchback" -> 100000
       [] b = "Sedan"     -> 120000
       [] b = "SUV"       -> 120000
       [] b = "Luxury"    -> 150000]

\* CONFIG["refurbishment_cost"]["ICE"], rupees
refurbishment_cost_ICE ==
  [b \in BodyTable |->
     CASE b = "Hatchback" -> 8000
       [] b = "Sedan"     -> 15000
       [] b = "SUV"       -> 25000
       [] b = "Luxury"    -> 60000]

\* CONFIG["refurbishment_cost"]["EV"]["any"], rupees
refurbishment_cost_EV_any == 10000

\* CONFIG["scrap_values"], rupees
scrap_values ==
  [b \in BodyTable |->
     CASE b = "Hatchback" -> 18000
       [] b = "Sedan"     -> 30000
       [] b = "SUV"       -> 45000
       [] b = "Luxury"    -> 60000]

DISCONTINUED_DB ==
  { <<"F","o","r","d"," ","E","c","o","s","p","o","r","t">>,
    <<"H","o","n","d","a"," ","C","i","v","i","c">>,
    <<"V","W"," ","P","o","l","o">>,
    <<"M","a","r","u","t","i"," ","A","l","t","o"," ","8","0","0">>,
    <<"R","e","n","a","u","l","t"," ","D","u","s","t","e","r">> }

NEW_GEN_DB ==
  { <<"M","a","r","u","t","i"," ","S","w","i","f","t">>,
    <<"H","y","u","n","d","a","i"," ","C","r","e","t","a">>,
    <<"T","a","t","a"," ","N","e","x","o","n">>,
    <<"M","a","h","i","n","d","r","a"," ","X","U","V","3","0","0">> }

(***************************************************************************)
(* Payloads                                                                *)
(***************************************************************************)
\* The oldest registration fed to the engines, in years before today, and
\* the largest odometer reading.
OldestRegYearsBack == 21
MaxOdometerKm == 200000

Today0 == [y |-> 2026, m |-> 11]

NoDate == [form |-> "absent", y |-> 0, m |-> 0]
BadDate == [form |-> "unparseable", y |-> 0, m |-> 0]
\* the "%Y-%m-%d" string of a day in the month n months before Today0
MonthsBack(n) ==
  LET t == Today0.y * 12 + (Today0.m - 1) - n
  IN  [form |-> "iso", y |-> t \div 12, m |-> (t % 12) + 1]

\* body_type key absent from the payload
NoBody == "<absent>"

BasePayload ==
  [ make |-> <<"H","o","n","d","a">>,
    model |-> <<"C","i","t","y">>,
    fuel_type |-> <<"P","e","t","r","o","l">>,
    reg_date |-> MonthsBack(60),
    body_type |-> "Sedan",
    odometer |-> None,
    market_listings_mean |-> None,
    current_ex_showroom |-> Some(650000),
    historical_onroad_price |-> None,
    city |-> <<"M","u","m","b","a","i">>,
    rto_code |-> <<"M","H","1","2">>,
    battery_capacity_kwh |-> None,
    battery_chemistry |-> <<>>,
    current_benchmark_ev_price |-> None,
    current_benchmark_ev_kwh |-> None ]

IceRegs ==
  { NoDate, BadDate, MonthsBack(-2), MonthsBack(0), MonthsBack(12), MonthsBack(60),
    MonthsBack(96), MonthsBack(98), MonthsBack(114), MonthsBack(120),
    MonthsBack(12 * OldestRegYearsBack) }
IceFuels == { <<"P","e","t","r","o","l">>, <<"D","i","e","s","e","l">>, <<"d","i","e","s","e","l">> }
Bodies == { NoBody, "Sedan", "Coupe" }
Regions ==
  { << <<"D","e","l","h","i">>, <<"D","L","8","C">> >>,
    << <<"M","u","m","b","a","i">>, <<"M","H","1","2">> >>,
    << <<"B","e","n","g","a","l","u","r","u">>, <<"k","a","0","1">> >>,
    << <<"N","C","R"," ","G","u","r","g","a","o","n">>, <<"H","R","2","6">> >> }
IceOdometers == { None, Some(96000), Some(MaxOdometerKm) }
\* << current_ex_showroom, historical_onroad_price >>
IcePrices == { << Some(650000), None >>, << None, Some(200000) >>, << None, None >> }
IceMarkets == { None, Some(0), Some(135000), Some(425000) }

IcePayloads ==
  { [BasePayload EXCEPT !.reg_date = r, !.fuel_type = f, !.body_type = b,
                        !.city = g[1], !.rto_code = g[2], !.odometer = o,
                        !.current_ex_showroom = p[1], !.historical_onroad_price = p[2],
                        !.market_listings_mean = mk] :
      r \in IceRegs, f \in IceFuels, b \in Bodies, g \in Regions,
      o \in IceOdometers, p \in IcePrices, mk \in IceMarkets }

\* make / model pairs for the lifecycle lists, Scenario A among them
Lifecycle ==
  { << <<"M","a","r","u","t","i">>, <<"S","w","i","f","t">> >>,
    << <<" ","H","o","n","d","a">>, <<"C","i","v","i","c"," ">> >>,
    << <<"M","a","r","u","t","i"," ","S","u","z","u","k","i">>, <<"S","w","i","f","t">> >> }

LifecyclePayloads ==
  { [BasePayload EXCEPT !.make = mm[1], !.model = mm[2], !.reg_date = r,
                        !.body_type = "Hatchback",
                        !.city = <<"D","e","l","h","i">>, !.rto_code = <<"D","L","3","C">>,
                        !.market_listings_mean = mk] :
      mm \in Lifecycle, r \in {MonthsBack(12), MonthsBack(60)},
      mk \in {None, Some(425000)} }

EvRegs ==
  { BadDate, MonthsBack(-2), MonthsBack(12), MonthsBack(48), MonthsBack(84),
    MonthsBack(12 * OldestRegYearsBack) }
EvBodies == { NoBody, "SUV", "Coupe" }
EvOdometers == { None, Some(150000), Some(MaxOdometerKm) }
EvBatteries == { None, Some(0), Some(30) }
EvChemistries == { <<>>, <<"l","f","p">>, <<"N","M","C">> }
\* << current_benchmark_ev_price, current_benchmark_ev_kwh >>
EvBenchmarks == { << None, None >>, << Some(1500000), Some(40) >> }
EvMarkets == { None, Some(0), Some(425000), Some(2000000) }

EvPayloads ==
  { [BasePayload EXCEPT !.make = <<"T","a","t","a">>, !.model = <<"N","e","x","o","n"," ","E","V">>,
                        !.fuel_type = <<"E","l","e","c","t","r","i","c">>, !.current_ex_showroom = None,
                        !.reg_date = r, !.body_type = b, !.odometer = o,
                        !.battery_capacity_kwh = k, !.battery_chemistry = c,
                        !.current_benchmark_ev_price = bm[1],
                        !.current_benchmark_ev_kwh = bm[2],
                        !.market_listings_mean = mk] :
      r \in EvRegs, b \in EvBodies, o \in EvOdometers, k \in EvBatteries,
      c \in EvChemistries, bm \in EvBenchmarks, mk \in EvMarkets }

\* spellings of fuel_type for the routing decision; each carries both a price
\* and a battery so that either engine can run
RoutingFuels ==
  { <<>>, <<"e","l","e","c","t","r","i","c">>, <<"E","L","E","C","T","R","I","C">>, <<" "," ","E","l","e","c","t","r","i","c"," ">>, <<"e","L","e","C","t","R","i","C">>,
    <<"E","l","e","c","t","r","i","c"," ","H","y","b","r","i","d">>, <<"H","y","b","r","i","d">>, <<"C","N","G">>, <<" ","d","i","e","s","e","l"," ">> }

RoutingPayloads ==
  { [BasePayload EXCEPT !.fuel_type = f, !.reg_date = r,
                        !.city = <<"N","e","w"," ","D","e","l","h","i">>, !.rto_code = <<"d","l","1","c">>,
                        !.battery_capacity_kwh = Some(30),
                        !.battery_chemistry = <<"L","F","P">>] :
      f \in RoutingFuels, r \in {MonthsBack(48), MonthsBack(120)} }

\* ages on and beside the 3-year and 6-year bounds of the market weight tiers,
\* for either engine, with a market mean
TierPayloads ==
  { [BasePayload EXCEPT !.fuel_type = f, !.reg_date = MonthsBack(n),
                        !.market_listings_mean = Some(425000),
                        !.battery_capacity_kwh = Some(30),
                        !.battery_chemistry = <<"L","F","P">>] :
      f \in { <<"P","e","t","r","o","l">>, <<"E","l","e","c","t","r","i","c">> },
      n \in {35, 36, 37, 72, 73} }

\* electric cars on either side of the warranty window of line 245
CliffPayloads ==
  { [BasePayload EXCEPT !.fuel_type = <<"E","l","e","c","t","r","i","c">>,
                        !.reg_date = MonthsBack(n), !.odometer = Some(o),
                        !.battery_capacity_kwh = Some(30)] :
      n \in {83, 84}, o \in {60000, 140000, 140001} }

Payloads ==
  IcePayloads \cup LifecyclePayloads \cup EvPayloads \cup RoutingPayloads
    \cup TierPayloads \cup CliffPayloads

(***************************************************************************)
(* State                                                                   *)
(***************************************************************************)
Entry(tag, a, b) == [tag |-> tag, a |-> a, b |-> b]

NoNorm == [fuel |-> <<>>, body_type |-> NoBody, now |-> [y |-> 0, m |-> 0]]
NoMetrics == [age_years |-> 0, age_months |-> 0, odometer |-> 0, avg_annual_running |-> 0]
NoRoute == [engine_used |-> "", is_ev |-> FALSE, ice_runs |-> 0, ev_runs |-> 0]
NoEng ==
  [ hist_onroad |-> 0, base_depr_pct |-> None, pre_ncr |-> 0, book_value |-> 0,
    scrap |-> FALSE,
    cost_per_kwh |-> 0, soh |-> None, warranty_risk |-> 0, intrinsic |-> 0 ]
NoBlend ==
  [ market_used |-> FALSE, base_weight |-> 0, m_w |-> 0, reduced |-> FALSE,
    market |-> 0, blended |-> 0, result |-> None ]
NoDealer == [computed |-> FALSE, price |-> 0, margin_pct |-> 0, refurbishment |-> 0]
NoOut == None
NoSeen == None
\* no other call in flight
NoParked == None
\* no depreciation lookup, no call of InsuranceGradeValuationEngine.calculate_idv
NoGrids == None
NoInsurance == None
\* no call of calculate_resale_value, no batch request, no call of calculate_idv
NoResale == None
NoBatch == None
NoIdv == None

\* no call of value_vehicle is under way
InitValueVehicle ==
  /\ pc = "Idle"
  /\ payload = BasePayload
  /\ today = Today0
  /\ log = <<>>
  /\ norm = NoNorm
  /\ metrics = NoMetrics
  /\ route = NoRoute
  /\ eng = NoEng
  /\ blend = NoBlend
  /\ dealer = NoDealer
  /\ out = NoOut
  /\ seen = NoSeen
  /\ parked = NoParked

Init ==
  /\ InitValueVehicle
  /\ resale = NoResale
  /\ batch = NoBatch
  /\ idv = NoIdv
  /\ grids = NoGrids
  /\ insurance = NoInsurance

(***************************************************************************)
(* value_vehicle: entry and input normalization                            *)
(***************************************************************************)
\* parse_date_safe taking the epoch month for a string strptime rejects
parse_date_epoch(datestr) ==
  IF datestr.form = "iso" THEN Some([y |-> datestr.y, m |-> datestr.m])
  ELSE Some([y |-> 1970, m |-> 1])

\* parse_date_safe: a date, or None when strptime raises
parse_date_safe(datestr) ==
  IF datestr.form = "iso" THEN Some([y |-> datestr.y, m |-> datestr.m]) ELSE None

\* age_from_reg_date: << age_years (1/1000 y, three decimals), delta_months >>, or None
age_from_reg_date(reg_date, now) ==
  LET reg == parse_date_safe(reg_date)
  IN  IF IsNone(reg) THEN None
      ELSE LET delta_months == (now.y - Val(reg).y) * 12 + (now.m - Val(reg).m)
           IN  Some(<< RoundDiv(delta_months * Milli, 12), delta_months >>)

clamp(v, lo, hi) == Max2(lo, Min2(hi, v))

\* Begin with the audit log kept from the call before, as a module-level list would be
BeginSharedLog(p) ==
  /\ pc \in {"Idle", "Done", "Error"}
  /\ pc' = "Normalizing"
  /\ payload' = p
  /\ log' = log
  /\ norm' = NoNorm
  /\ metrics' = NoMetrics
  /\ route' = NoRoute
  /\ eng' = NoEng
  /\ blend' = NoBlend
  /\ dealer' = NoDealer
  /\ out' = NoOut
  /\ UNCHANGED <<today, resale, batch, idv,
               grids, insurance>>

\* a call begins: the payload is received into a fresh frame, log = [] (line 307)
Begin(p) ==
  /\ pc \in {"Idle", "Done", "Error"}
  /\ pc' = "Normalizing"
  /\ payload' = p
  /\ log' = <<>>
  /\ norm' = NoNorm
  /\ metrics' = NoMetrics
  /\ route' = NoRoute
  /\ eng' = NoEng
  /\ blend' = NoBlend
  /\ dealer' = NoDealer
  /\ out' = NoOut
  /\ UNCHANGED <<today, resale, batch, idv,
               grids, insurance>>

\* line 323 with an estimate of 25,000 km a year
EstimatedOdometerHighUsage(age_years) == (age_years * 25000) \div Milli

\* line 323: int(age_years * 10000); age_years has three decimals, the
\* product is whole
EstimatedOdometer(age_years) == (age_years * default_avg_annual_km) \div Milli

\* lines 309-337
Normalize ==
  /\ pc = "Normalizing"
  /\ LET fuel == title(strip(payload.fuel_type))
         body_type == IF payload.body_type = NoBody THEN "Hatchback" ELSE payload.body_type
         \* date.today() of line 80
         age == age_from_reg_date(payload.reg_date, today)
         age_years == IF IsNone(age) THEN 0 ELSE Val(age)[1]
         age_months == IF IsNone(age) THEN 0 ELSE Val(age)[2]
         log1 == IF IsNone(age) THEN Append(log, Entry("reg_date missing or invalid", 0, 0))
                 ELSE log
         odometer == IF IsNone(payload.odometer)
                     THEN EstimatedOdometer(age_years)
                     ELSE Val(payload.odometer)
         log2 == IF IsNone(payload.odometer)
                 THEN Append(log1, Entry("Estimated odometer", odometer, 0))
                 ELSE log1
         avg_annual_running ==
           IF age_years > 0
           THEN RoundDiv(odometer * Milli, Max2(Milli, age_years))
           ELSE default_avg_annual_km
     IN  /\ norm' = [fuel |-> fuel, body_type |-> body_type, now |-> today]
         /\ metrics' = [age_years |-> age_years, age_months |-> age_months,
                        odometer |-> odometer,
                        avg_annual_running |-> avg_annual_running]
         /\ log' = log2
  /\ pc' = "RoutingEngine"
  /\ UNCHANGED <<payload, today, route, eng, blend, dealer, out, seen, parked,
               resale, batch, idv,
               grids, insurance>>

\* the test of line 340 without lower()
IsElectricCaseSensitive(fuel) == fuel = <<"e","l","e","c","t","r","i","c">>

\* the test of line 340
IsElectric(fuel) == lower(fuel) = <<"e","l","e","c","t","r","i","c">>

\* lines 339-341, 346-347
Route ==
  /\ pc = "RoutingEngine"
  /\ route' = IF IsElectric(norm.fuel)
              THEN [route EXCEPT !.engine_used = "EV", !.is_ev = TRUE]
              ELSE [route EXCEPT !.engine_used = "ICE", !.is_ev = FALSE]
  /\ pc' = "EngineComputing"
  /\ UNCHANGED <<payload, today, log, norm, metrics, eng, blend, dealer, out, seen, parked,
               resale, batch, idv,
               grids, insurance>>

(***************************************************************************)
(* ice_engine, steps A and 1-4 (lines 104-161)                             *)
(***************************************************************************)
\* choose_depr_from_grid returning the last grid value beyond the grid
choose_depr_last_bucket(age_years) ==
  LET keys == {k \in DOMAIN ice_depr_grid : age_years <= k}
      last == CHOOSE k \in DOMAIN ice_depr_grid : \A j \in DOMAIN ice_depr_grid : k >= j
  IN  IF keys # {}
      THEN ice_depr_grid[CHOOSE k \in keys : \A j \in keys : k <= j]
      ELSE ice_depr_grid[last]

\* choose_depr_from_grid with age_years < k for the test of line 93
choose_depr_strict_bucket(age_years) ==
  LET keys == {k \in DOMAIN ice_depr_grid : age_years < k}
  IN  IF keys # {}
      THEN ice_depr_grid[CHOOSE k \in keys : \A j \in keys : k <= j]
      ELSE ice_depr_floor_after_8y

\* choose_depr_from_grid: the value at the first sorted key k with age_years <= k
choose_depr_from_grid(age_years) ==
  LET keys == {k \in DOMAIN ice_depr_grid : age_years <= k}
  IN  IF keys # {}
      THEN ice_depr_grid[CHOOSE k \in keys : \A j \in keys : k <= j]
      ELSE ice_depr_floor_after_8y

\* Step A falling back to a zero price instead of raising
IceHistOnroadDefaultZero(data, age_years) ==
  IF ~IsNone(data.historical_onroad_price)
  THEN Some(Val(data.historical_onroad_price) * Paise)
  ELSE IF ~IsNone(data.current_ex_showroom)
  THEN Some(Scale(Val(data.current_ex_showroom) * Paise,
                  PPM - 20 * clamp(age_years, 0, 10 * Milli)))
  ELSE Some(0)

\* Step A: historical_onroad_price in paise, or None (the raise of line 118)
IceHistOnroad(data, age_years) ==
  IF ~IsNone(data.historical_onroad_price)
  THEN Some(Val(data.historical_onroad_price) * Paise)
  ELSE IF ~IsNone(data.current_ex_showroom)
  THEN Some(Scale(Val(data.current_ex_showroom) * Paise,
                  PPM - 20 * clamp(age_years, 0, 10 * Milli)))
  ELSE None

\* Step 2 with the penalty rate on both sides of the baseline
IceMileageFactorOneRate(avg_annual) ==
  LET km_diff == avg_annual - ice_expected_annual_km
  IN  IF km_diff > 0
      THEN PPM - (km_diff * ice_mileage_penalty_per_1000km_over) \div Milli
      ELSE PPM + (Abs(km_diff) * ice_mileage_penalty_per_1000km_over) \div Milli

\* Step 2: the mileage factor, ppm
IceMileageFactor(avg_annual) ==
  LET km_diff == avg_annual - ice_expected_annual_km
  IN  IF km_diff > 0
      THEN PPM - (km_diff * ice_mileage_penalty_per_1000km_over) \div Milli
      ELSE PPM + (Abs(km_diff) * ice_mileage_bonus_per_1000km_under) \div Milli

\* Step 3: make and model joined as line 138 joins them
MakeModel(data) == strip(strip(data.make) \o <<" ">> \o strip(data.model))

\* the test of line 150
IsNcrDiesel(data) ==
  LET city == lower(data.city)
      rto == upper(data.rto_code)
  IN  /\ lower(data.fuel_type) = <<"d","i","e","s","e","l">>
      /\ \/ contains(city, <<"d","e","l","h","i">>)
         \/ startswith(city, <<"n","c","r">>)
         \/ startswith(rto, <<"D","L">>)

\* the test of line 151 with > for >=
IsNcrScrapStrict(data, age_years) ==
  IsNcrDiesel(data) /\ age_years > ncr_diesel_scrap_age_years

\* the tests of lines 150-151
IsNcrScrap(data, age_years) ==
  IsNcrDiesel(data) /\ age_years >= ncr_diesel_scrap_age_years

\* the test of line 155 with > for >=
IsNcrPanicStrict(data, age_years) ==
  /\ IsNcrDiesel(data)
  /\ ~IsNcrScrap(data, age_years)
  /\ age_years > ncr_diesel_panic_age_years

\* the elif of line 155: the NCR test holds, the scrap test of line 151 does not
IsNcrPanic(data, age_years) ==
  /\ IsNcrDiesel(data)
  /\ ~IsNcrScrap(data, age_years)
  /\ age_years >= ncr_diesel_panic_age_years

\* the test of line 159
IsSouthRto(data) ==
  LET rto == upper(data.rto_code)
  IN  /\ rto # <<>>
      /\ SubSeq(rto, 1, Min2(2, Len(rto))) \in
           { <<"K","A">>, <<"T","S">>, <<"T","N">>, <<"K","L">>, <<"A","P">> }

\* line 152: CONFIG["scrap_values"].get(data.get("body_type", "Hatchback"), 18000)
ScrapValue(data) ==
  LET b == IF data.body_type = NoBody THEN "Hatchback" ELSE data.body_type
  IN  IF b \in DOMAIN scrap_values THEN scrap_values[b] ELSE 18000

EngineICE ==
  /\ pc = "EngineComputing"
  /\ route.engine_used = "ICE"
  /\ LET age_years == metrics.age_years
         hist == IceHistOnroad(payload, age_years)
         estimated == IsNone(payload.historical_onroad_price) /\ ~IsNone(hist)
         logA == IF estimated
                 THEN Append(log, Entry("Estimated historical_onroad_price", Val(hist), 0))
                 ELSE log
     IN  IF IsNone(hist)
         THEN \* raise ValueError (line 118)
              /\ pc' = "Error"
              /\ route' = [route EXCEPT !.ice_runs = @ + 1]
              /\ UNCHANGED <<log, eng, blend>>
         ELSE
           LET base_depr_pct == choose_depr_from_grid(age_years)
               book1 == Scale(Val(hist), PPM - base_depr_pct)
               log1 == Append(logA, Entry("Book value after grid depreciation",
                                          base_depr_pct, book1))
               factor == IceMileageFactor(metrics.avg_annual_running)
               book2 == Scale(book1, factor)
               log2 == Append(log1, Entry(IF factor < PPM THEN "High usage adjustment"
                                          ELSE "Low usage adjustment",
                                          Abs(PPM - factor), metrics.avg_annual_running))
               mm == MakeModel(payload)
               disc == mm \in DISCONTINUED_DB
               book3a == IF disc THEN Scale(book2, PPM - discontinued_penalty) ELSE book2
               log3a == IF disc
                        THEN Append(log2, Entry("Discontinued model penalty applied",
                                                discontinued_penalty, 0))
                        ELSE log2
               newgen == mm \in NEW_GEN_DB
               book3 == IF newgen THEN Scale(book3a, PPM - new_gen_penalty) ELSE book3a
               log3 == IF newgen
                       THEN Append(log3a, Entry("Newer generation penalty applied",
                                                new_gen_penalty, 0))
                       ELSE log3a
               scrap == IsNcrScrap(payload, age_years)
               panic == IsNcrPanic(payload, age_years)
               book4a == IF panic THEN Scale(book3, PPM - ncr_diesel_panic_penalty) ELSE book3
               log4a == IF panic
                        THEN Append(log3, Entry("NCR diesel panic penalty applied",
                                                ncr_diesel_panic_penalty, age_years))
                        ELSE log3
               south == IsSouthRto(payload)
               book4 == IF south THEN Scale(book4a, south_multiplier) ELSE book4a
               log4 == IF south
                       THEN Append(log4a, Entry("South India regional premium applied",
                                                south_multiplier, 0))
                       ELSE log4a
           IN  IF scrap
               THEN \* the return of line 154
                    /\ eng' = [eng EXCEPT !.hist_onroad = Val(hist),
                                          !.base_depr_pct = Some(base_depr_pct),
                                          !.pre_ncr = book3,
                                          !.book_value = book3, !.intrinsic = book3,
                                          !.scrap = TRUE]
                    /\ log' = Append(log3, Entry("NCR diesel older than scrap threshold",
                                                 ncr_diesel_scrap_age_years,
                                                 ScrapValue(payload)))
                    /\ blend' = [blend EXCEPT !.result =
                                   Some([fair_market_retail_value |-> ScrapValue(payload),
                                         reason |-> "NCR diesel scrap threshold",
                                         book_value |-> 0, battery_soh |-> 0,
                                         cost_per_kwh |-> 0,
                                         battery_running_value |-> 0])]
                    /\ route' = [route EXCEPT !.ice_runs = @ + 1]
                    /\ pc' = "DealerPricing"
               ELSE /\ eng' = [eng EXCEPT !.hist_onroad = Val(hist),
                                          !.base_depr_pct = Some(base_depr_pct),
                                          !.pre_ncr = book3,
                                          !.book_value = book4, !.intrinsic = book4]
                    /\ log' = log4
                    /\ route' = [route EXCEPT !.ice_runs = @ + 1]
                    /\ blend' = blend
                    /\ pc' = "Blending"
  /\ UNCHANGED <<payload, today, norm, metrics, dealer, out, seen, parked,
               resale, batch, idv,
               grids, insurance>>

(***************************************************************************)
(* ice_engine, step 5 and the negotiation buffer (lines 163-188)           *)
(***************************************************************************)
\* abs(market - intrinsic) / (intrinsic + 1e-6) > pct / 100, all in paise.
\* With intrinsic < 0 the quotient is negative; with intrinsic = 0 the
\* divisor is 1e-6 and any market > 0 diverges.
Diverges(market, intrinsic, pct) ==
  /\ intrinsic >= 0
  /\ Abs(market - intrinsic) > pct * (intrinsic \div 100) + (pct * (intrinsic % 100)) \div 100

\* lines 166-171 with the tiers of calculate_resale_value: 0.70 under 5 years, else 0.50
IceBaseWeightTwoTiers(age_years) ==
  IF age_years < 5 * Milli THEN market_weight_age_under_3
  ELSE market_weight_age_over_6

\* lines 166-171 with "age_years < 6" for the middle tier
IceBaseWeightSixExclusive(age_years) ==
  IF age_years < 3 * Milli THEN market_weight_age_under_3
  ELSE IF age_years < 6 * Milli THEN market_weight_age_3_to_6
  ELSE market_weight_age_over_6

\* lines 166-171
IceBaseWeight(age_years) ==
  IF age_years < 3 * Milli THEN market_weight_age_under_3
  ELSE IF age_years <= 6 * Milli THEN market_weight_age_3_to_6
  ELSE market_weight_age_over_6

\* lines 174-176 without the reduction
IceMarketWeightUnreduced(market, book_value, age_years) == IceBaseWeight(age_years)

\* lines 174-176: the weight after the divergence test
IceMarketWeight(market, book_value, age_years) ==
  IF Diverges(market, book_value, 35)
  THEN Max2(ev_min_market_blend, IceBaseWeight(age_years) - 150000)
  ELSE IceBaseWeight(age_years)

\* lines 177 and 281 with the intrinsic value at full weight
BlendedUnnormalised(market, intrinsic, w) == intrinsic + Scale(market, w)

\* market * w + intrinsic * (1 - w), rounded once
Blended(market, intrinsic, w) == intrinsic + Scale(market - intrinsic, w)

\* the test of line 165 without "market_mean > 0"
IceUsesMarketIfPresent(market_mean) == ~IsNone(market_mean)

\* the test of line 165: "market_mean is not None and market_mean > 0"
IceUsesMarket(market_mean) == ~IsNone(market_mean) /\ Val(market_mean) > 0

BlendICE ==
  /\ pc = "Blending"
  /\ route.engine_used = "ICE"
  /\ LET market_mean == payload.market_listings_mean
         book_value == eng.book_value
         use == IceUsesMarket(market_mean)
         market == IF use THEN Val(market_mean) * Paise ELSE 0
         base_w == IceBaseWeight(metrics.age_years)
         m_w == IceMarketWeight(market, book_value, metrics.age_years)
         blended == IF use THEN Blended(market, book_value, m_w) ELSE book_value
         log1 == IF use /\ m_w # base_w
                 THEN Append(log, Entry("Market listings diverge, reducing market weight",
                                        m_w, 0))
                 ELSE log
         log2 == IF use THEN Append(log1, Entry("Blended market", m_w, blended))
                 ELSE Append(log1, Entry("No market_listings_mean provided", 0, 0))
         retail == Scale(blended, negotiation_buffer_default)
     IN  /\ blend' = [market_used |-> use,
                      base_weight |-> IF use THEN base_w ELSE 0,
                      m_w |-> IF use THEN m_w ELSE 0,
                      reduced |-> use /\ Diverges(market, book_value, 35),
                      market |-> market,
                      blended |-> blended,
                      result |-> Some([fair_market_retail_value |-> RoundDiv(retail, Paise),
                                       reason |-> "ICE computed",
                                       book_value |-> RoundDiv(book_value, Paise),
                                       battery_soh |-> 0, cost_per_kwh |-> 0,
                                       battery_running_value |-> 0])]
         /\ log' = Append(log2, Entry("Negotiation buffer applied",
                                      negotiation_buffer_default, retail))
  /\ pc' = "DealerPricing"
  /\ UNCHANGED <<payload, today, norm, metrics, route, eng, dealer, out, seen, parked,
               resale, batch, idv,
               grids, insurance>>

(***************************************************************************)
(* ev_engine, steps 1-5 (lines 194-270)                                    *)
(***************************************************************************)
\* "if x:" on an optional number: present and non-zero
Truthy(o) == ~IsNone(o) /\ Val(o) # 0

\* line 198
Chemistry(data) ==
  IF data.battery_chemistry = <<>> THEN <<"N","M","C">> ELSE upper(data.battery_chemistry)

\* lines 208-213: cost per kWh in paise
EvCostPerKwh(data) ==
  IF Truthy(data.current_benchmark_ev_price) /\ Truthy(data.current_benchmark_ev_kwh)
  THEN RoundDiv(Val(data.current_benchmark_ev_price) * Paise,
                Val(data.current_benchmark_ev_kwh))
  ELSE ev_battery_replacement_cost_per_kwh * Paise

\* lines 223-229 with the NMC rate for every chemistry
EvAnnualDegOneRate(chemistry, avg_annual) ==
  IF avg_annual # 0 /\ avg_annual > ev_high_usage_threshold_km
  THEN ev_degradation_rate_nmc + ev_high_usage_rate_increase
  ELSE ev_degradation_rate_nmc

\* lines 223-229: annual degradation, ppm
EvAnnualDeg(chemistry, avg_annual) ==
  LET base == IF chemistry = <<"L","F","P">> THEN ev_degradation_rate_lfp
              ELSE ev_degradation_rate_nmc
  IN  IF avg_annual # 0 /\ avg_annual > ev_high_usage_threshold_km
      THEN base + ev_high_usage_rate_increase
      ELSE base

\* lines 232-233 without the lower bound of the clamp
EvSohUnfloored(chemistry, avg_annual, age_years) ==
  Min2(PPM, PPM - (EvAnnualDeg(chemistry, avg_annual) * clamp(age_years, 0, 20 * Milli)) \div Milli)

\* lines 232-233: state of health, ppm
EvSoh(chemistry, avg_annual, age_years) ==
  clamp(PPM - (EvAnnualDeg(chemistry, avg_annual) * clamp(age_years, 0, 20 * Milli)) \div Milli,
        ev_min_soh, PPM)

\* line 245 with the seventh year still inside the warranty window
EvWarrantyCliffAfterSeven(m) == m.age_years > 7 * Milli \/ m.odometer > 140000

\* line 245
EvWarrantyCliff(m) == m.age_years >= 7 * Milli \/ m.odometer > 140000

\* lines 253-258: the range/tech factor, ppm
EvRangeFactor(data) ==
  LET bench == data.current_benchmark_ev_kwh
      kwh == Val(data.battery_capacity_kwh)
  IN  IF Truthy(bench) /\ Val(bench) > 0 /\ kwh * 100 < 85 * Val(bench)
      THEN PPM - (850000 - RoundDiv(kwh * PPM, Val(bench))) \div 4
      ELSE PPM

EngineEV ==
  /\ pc = "EngineComputing"
  /\ route.engine_used = "EV"
  /\ IF IsNone(payload.battery_capacity_kwh)
     THEN \* raise ValueError (line 205)
          /\ pc' = "Error"
          /\ route' = [route EXCEPT !.ev_runs = @ + 1]
          /\ UNCHANGED <<log, eng>>
     ELSE
       LET battery_kwh == Val(payload.battery_capacity_kwh)
           chemistry == Chemistry(payload)
           age_years == metrics.age_years
           avg_annual == metrics.avg_annual_running
           benchmarked == Truthy(payload.current_benchmark_ev_price)
                          /\ Truthy(payload.current_benchmark_ev_kwh)
           cost_per_kwh == EvCostPerKwh(payload)
           log1 == Append(log, Entry(IF benchmarked
                                     THEN "Derived market cost_per_kWh from benchmark"
                                     ELSE "No benchmark provided", cost_per_kwh, 0))
           adjusted_base_price == Scale(cost_per_kwh * battery_kwh, PPM + 120000)
           log2 == Append(log1, Entry("Adjusted base price", adjusted_base_price, 0))
           high == avg_annual # 0 /\ avg_annual > ev_high_usage_threshold_km
           log3 == IF high THEN Append(log2, Entry("High annual km detected", 0, 0)) ELSE log2
           soh == EvSoh(chemistry, avg_annual, age_years)
           log4 == Append(log3, Entry("Estimated battery SoH", age_years, soh))
           brv1 == Scale(adjusted_base_price, soh)
           log5 == Append(log4, Entry("Battery running value", brv1, 0))
           cliff == EvWarrantyCliff(metrics)
           warranty_risk == IF cliff THEN Scale(cost_per_kwh * battery_kwh, 300000) ELSE 0
           brv2 == brv1 - warranty_risk
           log6 == IF cliff THEN Append(log5, Entry("Warranty cliff", warranty_risk, 0))
                   ELSE log5
           range == EvRangeFactor(payload)
           brv3 == Scale(brv2, range)
           log7 == IF range # PPM THEN Append(log6, Entry("Range/tech penalty", PPM - range, 0))
                   ELSE log6
           nmc == chemistry = <<"N","M","C">>
           brv4 == IF nmc THEN Scale(brv3, PPM - 30000) ELSE brv3
           log8 == IF nmc THEN Append(log7, Entry("Chemistry penalty applied", 30000, 0))
                   ELSE log7
           brv5 == Max2(Scale(brv4, PPM - 100000), 0)
       IN  /\ eng' = [eng EXCEPT !.cost_per_kwh = cost_per_kwh,
                                 !.soh = Some(soh),
                                 !.warranty_risk = warranty_risk,
                                 !.book_value = brv5, !.intrinsic = brv5]
           /\ log' = Append(log8, Entry("Applied wear reserve", 100000, brv5))
           /\ route' = [route EXCEPT !.ev_runs = @ + 1]
           /\ pc' = "Blending"
  /\ UNCHANGED <<payload, today, norm, metrics, blend, dealer, out, seen, parked,
               resale, batch, idv,
               grids, insurance>>

(***************************************************************************)
(* ev_engine, step 6 (lines 272-290)                                       *)
(***************************************************************************)
\* lines 276-278
EvBaseWeight(age_years) == IF age_years < 3 * Milli THEN 600000 ELSE 500000

\* lines 279-280
EvMarketWeight(market, intrinsic, age_years) ==
  IF Diverges(market, intrinsic, 40)
  THEN Max2(ev_min_market_blend, EvBaseWeight(age_years) - 200000)
  ELSE EvBaseWeight(age_years)

\* the test of line 273: "market_mean and market_mean > 0"
EvUsesMarket(market_mean) == Truthy(market_mean) /\ Val(market_mean) > 0

BlendEV ==
  /\ pc = "Blending"
  /\ route.engine_used = "EV"
  /\ LET market_mean == payload.market_listings_mean
         brv == eng.book_value
         use == EvUsesMarket(market_mean)
         market == IF use THEN Val(market_mean) * Paise ELSE 0
         base_w == EvBaseWeight(metrics.age_years)
         m_w == EvMarketWeight(market, brv, metrics.age_years)
         blended == IF use THEN Blended(market, brv, m_w) ELSE brv
         log1 == IF use /\ m_w # base_w
                 THEN Append(log, Entry("Market divergence, reducing market weight", m_w, 0))
                 ELSE log
     IN  /\ blend' = [market_used |-> use,
                      base_weight |-> IF use THEN base_w ELSE 0,
                      m_w |-> IF use THEN m_w ELSE 0,
                      reduced |-> use /\ Diverges(market, brv, 40),
                      market |-> market,
                      blended |-> blended,
                      result |-> Some([fair_market_retail_value |-> RoundDiv(blended, Paise),
                                       reason |-> "EV computed",
                                       book_value |-> 0,
                                       battery_soh |-> RoundDiv(Val(eng.soh), Milli),
                                       cost_per_kwh |-> eng.cost_per_kwh,
                                       battery_running_value |-> RoundDiv(brv, Paise)])]
         /\ log' = IF use THEN Append(log1, Entry("Blended EV value", m_w, blended))
                   ELSE Append(log1, Entry("No market_listings_mean for EV", 0, 0))
  /\ pc' = "DealerPricing"
  /\ UNCHANGED <<payload, today, norm, metrics, route, eng, dealer, out, seen, parked,
               resale, batch, idv,
               grids, insurance>>

(***************************************************************************)
(* compute_dealer_offer and the final record (lines 295-301, 357-381)      *)
(***************************************************************************)
\* line 296
DealerMarginPct(body_type) ==
  IF body_type \in DOMAIN dealer_margin THEN dealer_margin[body_type] ELSE 120000

\* line 297, rupees
DealerRefurb(body_type, is_ev) ==
  IF is_ev
  THEN refurbishment_cost_EV_any   \* the EV table has the single key "any"
  ELSE IF body_type \in DOMAIN refurbishment_cost_ICE
       THEN refurbishment_cost_ICE[body_type]
       ELSE 0

\* lines 299-301 without the floor at zero of line 300
compute_dealer_offer_unfloored(retail_value, body_type, is_ev) ==
  LET margin_pct == DealerMarginPct(body_type)
      refurb == DealerRefurb(body_type, is_ev)
      dealer_offer == Scale(retail_value * Paise, PPM - margin_pct) - refurb * Paise
  IN  << RoundDiv(dealer_offer, Paise), margin_pct, refurb >>

\* lines 299-301: << round(dealer_offer), margin_pct, refurb >>
compute_dealer_offer(retail_value, body_type, is_ev) ==
  LET margin_pct == DealerMarginPct(body_type)
      refurb == DealerRefurb(body_type, is_ev)
      dealer_offer == Scale(retail_value * Paise, PPM - margin_pct) - refurb * Paise
  IN  << RoundDiv(Max2(dealer_offer, 0), Paise), margin_pct, refurb >>

\* line 359 with the entry put at the head of the log
DealerEntryPrepended(steps, offer) ==
  <<Entry("Dealer purchase price computed", offer[1], offer[3])>> \o steps

\* line 359: log.append of the dealer-pricing entry
DealerEntryAppended(steps, offer) ==
  Append(steps, Entry("Dealer purchase price computed", offer[1], offer[3]))

\* lines 356-381
DealerPricing ==
  /\ pc = "DealerPricing"
  /\ LET fair_value == Val(blend.result).fair_market_retail_value
         is_ev == route.engine_used = "EV"
         offer == compute_dealer_offer(fair_value, norm.body_type, is_ev)
         log1 == DealerEntryAppended(log, offer)
     IN  /\ dealer' = [computed |-> TRUE, price |-> offer[1],
                       margin_pct |-> offer[2], refurbishment |-> offer[3]]
         /\ route' = [route EXCEPT !.is_ev = is_ev]
         /\ log' = log1
         /\ out' = Some([status |-> "success",
                         engine_used |-> route.engine_used,
                         vehicle_metrics |->
                           [age_years |-> metrics.age_years,
                            age_months |-> metrics.age_months,
                            estimated_odometer |-> metrics.odometer,
                            avg_annual_running |-> metrics.avg_annual_running],
                         pricing |->
                           [fair_market_retail_value |-> fair_value,
                            dealer_purchase_offer |-> offer[1]],
                         breakdown_log |->
                           [steps |-> log1,
                            internal_breakdown |-> Val(blend.result),
                            dealer_meta |-> [margin_pct |-> offer[2],
                                             refurbishment |-> offer[3]]]])
  /\ pc' = "Done"
  /\ UNCHANGED <<payload, today, norm, metrics, eng, blend, seen, parked,
               resale, batch, idv,
               grids, insurance>>

\* the call is over (return of line 381, or the ValueError has propagated):
\* the frame and its locals are gone and the caller may call again
Return ==
  /\ pc \in {"Done", "Error"}
  /\ pc' = "Idle"
  /\ payload' = BasePayload
  /\ log' = <<>>
  /\ norm' = NoNorm
  /\ metrics' = NoMetrics
  /\ route' = NoRoute
  /\ eng' = NoEng
  /\ blend' = NoBlend
  /\ dealer' = NoDealer
  /\ out' = NoOut
  /\ UNCHANGED <<today, seen, parked,
               resale, batch, idv,
               grids, insurance>>

\* the caller calls value_vehicle with any payload
Call ==
  /\ pc = "Idle"
  /\ \E p \in Payloads : Begin(p)
  /\ UNCHANGED <<seen, parked>>

Next ==
  \/ Call
  \/ Normalize
  \/ Route
  \/ EngineICE
  \/ EngineEV
  \/ BlendICE
  \/ BlendEV
  \/ DealerPricing
  \/ Return

Spec == Init /\ [][Next]_vars

(***************************************************************************)
(* Repeated calls: a caller that keeps one earlier outcome to compare      *)
(* with, while the calendar may advance                                    *)
(***************************************************************************)
\* months the calendar may advance
MaxTicks == 1

DetPayloads ==
  { [BasePayload EXCEPT !.make = <<"M","a","r","u","t","i"," ","S","u","z","u","k","i">>, !.model = <<"S","w","i","f","t">>,
                        !.body_type = "Hatchback", !.city = <<"D","e","l","h","i">>,
                        !.rto_code = <<"D","L","3","C">>, !.market_listings_mean = Some(425000)],
    [BasePayload EXCEPT !.fuel_type = <<"D","i","e","s","e","l">>, !.reg_date = MonthsBack(114),
                        !.city = <<"D","e","l","h","i">>, !.rto_code = <<"D","L","8","C">>],
    [BasePayload EXCEPT !.reg_date = MonthsBack(0), !.odometer = Some(96000)],
    [BasePayload EXCEPT !.reg_date = NoDate, !.body_type = "Coupe"],
    [BasePayload EXCEPT !.current_ex_showroom = None],
    [BasePayload EXCEPT !.fuel_type = <<"E","l","e","c","t","r","i","c">>, !.reg_date = MonthsBack(48),
                        !.battery_capacity_kwh = Some(30),
                        !.battery_chemistry = <<"L","F","P">>],
    [BasePayload EXCEPT !.fuel_type = <<"e","l","e","c","t","r","i","c">>, !.reg_date = MonthsBack(84),
                        !.battery_capacity_kwh = Some(30),
                        !.market_listings_mean = Some(2000000)],
    [BasePayload EXCEPT !.fuel_type = <<"E","l","e","c","t","r","i","c">>],
    [BasePayload EXCEPT !.fuel_type = <<"E","l","e","c","t","r","i","c">>, !.reg_date = MonthsBack(48),
                        !.battery_capacity_kwh = Some(30),
                        !.battery_chemistry = <<"N","M","C">>],
    [BasePayload EXCEPT !.fuel_type = <<"E","l","e","c","t","r","i","c">>, !.reg_date = MonthsBack(48),
                        !.odometer = Some(100000),
                        !.battery_capacity_kwh = Some(30),
                        !.battery_chemistry = <<"L","F","P">>],
    [BasePayload EXCEPT !.fuel_type = <<"E","l","e","c","t","r","i","c">>, !.reg_date = MonthsBack(48),
                        !.odometer = Some(100000),
                        !.battery_capacity_kwh = Some(30),
                        !.battery_chemistry = <<"N","M","C">>] }

\* the next call follows the last one directly
CallDet ==
  /\ \E p \in DetPayloads : Begin(p)
  /\ seen' = IF IsNone(seen) THEN seen
             ELSE Some([Val(seen) EXCEPT !.later = Min2(@ + 1, 2)])
  /\ UNCHANGED parked

\* the caller keeps the outcome of the call that just ended
Remember ==
  /\ pc \in {"Done", "Error"}
  /\ seen' = Some([payload |-> payload, now |-> norm.now, pc |-> pc, out |-> out,
                   later |-> 0])
  /\ UNCHANGED <<pc, payload, today, log, norm, metrics, route, eng, blend, dealer, out,
               parked, resale, batch, idv,
               grids, insurance>>

\* a month passes
Tick ==
  /\ (today.y * 12 + today.m) - (Today0.y * 12 + Today0.m) < MaxTicks
  /\ today' = IF today.m = 12 THEN [y |-> today.y + 1, m |-> 1]
              ELSE [y |-> today.y, m |-> today.m + 1]
  /\ UNCHANGED <<pc, payload, log, norm, metrics, route, eng, blend, dealer, out, seen, parked,
               resale, batch, idv,
               grids, insurance>>

NextDet ==
  \/ CallDet
  \/ Normalize
  \/ Route
  \/ EngineICE
  \/ EngineEV
  \/ BlendICE
  \/ BlendEV
  \/ DealerPricing
  \/ Remember
  \/ Tick

SpecDet == Init /\ [][NextDet]_vars

(***************************************************************************)
(* Concurrent calls: two threads inside value_vehicle at once.  The        *)
(* variables pc .. out are the frame of the thread that runs; parked is    *)
(* the frame of the other thread, which runs again after a switch.  A      *)
(* frame holds what line 307 and the parameters make per call: the         *)
(* payload reference, the log list and the locals.  CONFIG and the two     *)
(* lifecycle lists are module-level and only read.                         *)
(***************************************************************************)
ConcPayloads ==
  { [BasePayload EXCEPT !.market_listings_mean = Some(425000)],
    [BasePayload EXCEPT !.fuel_type = <<"D","i","e","s","e","l">>, !.reg_date = MonthsBack(114),
                        !.city = <<"D","e","l","h","i">>, !.rto_code = <<"D","L","8","C">>],
    [BasePayload EXCEPT !.current_ex_showroom = None],
    [BasePayload EXCEPT !.fuel_type = <<"E","l","e","c","t","r","i","c">>, !.reg_date = MonthsBack(84),
                        !.battery_capacity_kwh = Some(30),
                        !.market_listings_mean = Some(2000000)],
    [BasePayload EXCEPT !.fuel_type = <<"E","l","e","c","t","r","i","c">>, !.reg_date = MonthsBack(48),
                        !.odometer = Some(100000),
                        !.battery_capacity_kwh = Some(30),
                        !.battery_chemistry = <<"N","M","C">>] }

\* the frame of the running thread
Frame ==
  [ pc |-> pc, payload |-> payload, log |-> log, norm |-> norm, metrics |-> metrics,
    route |-> route, eng |-> eng, blend |-> blend, dealer |-> dealer, out |-> out ]

\* the frame of a call that has just received payload p (lines 306-307)
FreshFrame(p) ==
  [ pc |-> "Normalizing", payload |-> p, log |-> <<>>, norm |-> NoNorm,
    metrics |-> NoMetrics, route |-> NoRoute, eng |-> NoEng, blend |-> NoBlend,
    dealer |-> NoDealer, out |-> NoOut ]

\* one thread calls value_vehicle while no other call is in flight
CallAlone ==
  /\ pc = "Idle"
  /\ IsNone(parked)
  /\ IsNone(seen)
  /\ \E p \in ConcPayloads : Begin(p)
  /\ UNCHANGED <<seen, parked>>

\* the caller keeps what the call made alone has given: outcome, record, log
RememberAlone ==
  /\ pc \in {"Done", "Error"}
  /\ IsNone(parked)
  /\ IsNone(seen)
  /\ seen' = Some([payload |-> payload, pc |-> pc, out |-> out, log |-> log])
  /\ UNCHANGED <<pc, payload, today, log, norm, metrics, route, eng, blend, dealer, out,
               parked, resale, batch, idv,
               grids, insurance>>

\* two threads call value_vehicle at once, each with a payload of its own
CallConcurrent ==
  /\ pc \in {"Done", "Error"}
  /\ IsNone(parked)
  /\ ~IsNone(seen)
  /\ \E p \in ConcPayloads : Begin(p)
  /\ \E q \in ConcPayloads : parked' = Some(FreshFrame(q))
  /\ UNCHANGED seen

\* a switch that leaves the log where it is, as a module-level list would be
SwitchSharedLog ==
  /\ ~IsNone(parked)
  /\ parked' = Some(Frame)
  /\ pc' = Val(parked).pc
  /\ payload' = Val(parked).payload
  /\ log' = log
  /\ norm' = Val(parked).norm
  /\ metrics' = Val(parked).metrics
  /\ route' = Val(parked).route
  /\ eng' = Val(parked).eng
  /\ blend' = Val(parked).blend
  /\ dealer' = Val(parked).dealer
  /\ out' = Val(parked).out
  /\ UNCHANGED <<today, seen, resale, batch, idv,
               grids, insurance>>

\* the scheduler lets the other thread run: the frames change places, and
\* nothing else does, as no step writes outside its frame
Switch ==
  /\ ~IsNone(parked)
  /\ parked' = Some(Frame)
  /\ pc' = Val(parked).pc
  /\ payload' = Val(parked).payload
  /\ log' = Val(parked).log
  /\ norm' = Val(parked).norm
  /\ metrics' = Val(parked).metrics
  /\ route' = Val(parked).route
  /\ eng' = Val(parked).eng
  /\ blend' = Val(parked).blend
  /\ dealer' = Val(parked).dealer
  /\ out' = Val(parked).out
  /\ UNCHANGED <<today, seen, resale, batch, idv,
               grids, insurance>>

NextConc ==
  \/ CallAlone
  \/ RememberAlone
  \/ CallConcurrent
  \/ Switch
  \/ Normalize
  \/ Route
  \/ EngineICE
  \/ EngineEV
  \/ BlendICE
  \/ BlendEV
  \/ DealerPricing

SpecConc == Init /\ [][NextConc]_vars

(***************************************************************************)
(* calculate_resale_value (src/vehicle_valuation.py): the single-function  *)
(* valuation the batch endpoint applies to every vehicle.  Ages are whole  *)
(* months (relativedelta years * 12 + months); money is in paise.          *)
(***************************************************************************)
\* the oldest registration given to calculate_resale_value, in months
ResaleOldestMonths == 420

\* datetime.now() of line 27: a day in the month of today
ResaleNow(t) == [y |-> t.y, m |-> t.m, d |-> 15]

\* the "%Y-%m-%d" string of day d of the month n months before Today0
ResaleDate(n, d) ==
  [form |-> "iso", y |-> MonthsBack(n).y, m |-> MonthsBack(n).m, d |-> d]

ResaleBadDate == [form |-> "unparseable", y |-> 0, m |-> 0, d |-> 0]

\* relativedelta(dt1, dt2): whole years and months from dt2 to dt1, both with
\* the sign of the difference (a dt2 later than dt1 gives values <= 0)
relativedelta(dt1, dt2) ==
  LET diff == (dt1.y - dt2.y) * 12 + (dt1.m - dt2.m)
      later == diff < 0 \/ (diff = 0 /\ dt1.d < dt2.d)
      whole == IF later THEN (-diff) - (IF dt2.d < dt1.d THEN 1 ELSE 0)
               ELSE diff - (IF dt1.d < dt2.d THEN 1 ELSE 0)
  IN  IF later THEN [years |-> -(whole \div 12), months |-> -(whole % 12)]
      ELSE [years |-> whole \div 12, months |-> whole % 12]

\* the keys read with vehicle_data[...], in the order lines 12-22 read them
ResaleRequiredKeys ==
  << "make", "model", "fuel_type", "reg_date", "rto_code", "city", "body_type",
     "color", "current_ex_showroom" >>

\* str(e) of the first exception lines 12-22 raise, or None: a TypeError for
\* an item that is not a dict, a KeyError for a key that is absent, the
\* ValueError of strptime for a reg_date that is not "%Y-%m-%d"
ResaleFirstFailure(vehicle_data) ==
  LET bad == { i \in DOMAIN ResaleRequiredKeys :
                 \/ ResaleRequiredKeys[i] \in vehicle_data.absent
                 \/ /\ ResaleRequiredKeys[i] = "reg_date"
                    /\ vehicle_data.reg_date.form # "iso" }
      first == CHOOSE i \in bad : \A j \in bad : i <= j
  IN  IF vehicle_data.shape # "dict" THEN Some("string indices must be integers")
      ELSE IF bad = {} THEN None
      ELSE IF ResaleRequiredKeys[first] \in vehicle_data.absent
      THEN Some(ResaleRequiredKeys[first])
      ELSE Some("time data does not match format '%Y-%m-%d'")

\* lines 46-65: the age ladder, ppm, on whole months
ResaleBaseDepreciation(age_months) ==
  IF age_months < 6 THEN 50000
  ELSE IF age_months < 12 THEN 100000
  ELSE IF age_months < 24 THEN 180000
  ELSE IF age_months < 36 THEN 250000
  ELSE IF age_months < 48 THEN 300000
  ELSE IF age_months < 60 THEN 350000
  ELSE IF age_months < 72 THEN 400000
  ELSE IF age_months < 84 THEN 450000
  ELSE IF age_months < 96 THEN 500000
  ELSE 600000

\* lines 37-43: avg_annual_running = odometer / age_years against 15000 and 6000
ResaleMileageAdjustment(odometer, age_months) ==
  IF age_months > 0
  THEN IF odometer * 12 > 15000 * age_months THEN 50000
       ELSE IF odometer * 12 < 6000 * age_months THEN -30000
       ELSE 0
  ELSE 0

discontinued_models ==
  { <<"E","c","o","s","p","o","r","t">>, <<"F","i","g","o">>, <<"A","s","p","i","r","e">>, <<"C","i","v","i","c">>, <<"C","R","-","V">>, <<"Y","a","r","i","s">>, <<"E","t","i","o","s">>,
    <<"C","o","r","o","l","l","a"," ","A","l","t","i","s">>, <<"P","u","n","t","o">>, <<"L","i","n","e","a">>, <<"A","v","e","o">>, <<"B","e","a","t">>, <<"S","a","i","l">> }

new_gen_models ==
  { <<"S","w","i","f","t">>, <<"D","z","i","r","e">>, <<"B","a","l","e","n","o">>, <<"C","r","e","t","a">>, <<"V","e","n","u","e">>, <<"i","2","0">>, <<"V","e","r","n","a">>,
    <<"S","e","l","t","o","s">>, <<"S","o","n","e","t">>, <<"C","i","t","y">>, <<"A","m","a","z","e">>, <<"W","R","-","V">>, <<"B","r","e","z","z","a">>, <<"E","r","t","i","g","a">> }

preferred_colors == { "White", "Silver", "Grey", "Black" }

ncr_cities ==
  { <<"D","e","l","h","i">>, <<"N","o","i","d","a">>, <<"G","u","r","g","a","o","n">>, <<"G","u","r","u","g","r","a","m">>, <<"F","a","r","i","d","a","b","a","d">>, <<"G","h","a","z","i","a","b","a","d">> }

south_rto_prefixes == { <<"K","A">>, <<"T","S">>, <<"T","N">>, <<"K","L">>, <<"A","P">> }

coastal_cities == { <<"M","u","m","b","a","i">>, <<"C","h","e","n","n","a","i">>, <<"K","o","l","k","a","t","a">>, <<"G","o","a">>, <<"V","i","s","a","k","h","a","p","a","t","n","a","m">> }

\* lines 78-99: the market penalty, ppm
ResaleMarketPenalty(model, color, age_months) ==
  (IF \E disc \in discontinued_models : contains(model, disc) THEN 150000 ELSE 0)
  + (IF (\E ng \in new_gen_models : contains(model, ng)) /\ age_months > 36
     THEN 100000 ELSE 0)
  + (IF color \notin preferred_colors THEN 20000 ELSE 0)

\* line 108
ResaleIsNcrDiesel(city, fuel_type) ==
  (\E ncr \in ncr_cities : contains(city, ncr)) /\ fuel_type = "Diesel"

\* lines 104-124: regional_adjustment, ppm
ResaleRegionalAdjustment(city, fuel_type, rto_code, age_months) ==
  LET ncr == ResaleIsNcrDiesel(city, fuel_type)
      r0 == IF ncr /\ age_months <= 114 /\ age_months > 96 THEN 750000 ELSE PPM
      r1 == IF \E prefix \in south_rto_prefixes : startswith(rto_code, prefix)
            THEN Scale(r0, 1120000) ELSE r0
  IN  IF (\E coastal \in coastal_cities : contains(city, coastal)) /\ age_months > 60
      THEN Scale(r1, 960000) ELSE r1

\* lines 142-150: << dealer_margin (ppm), refurb_cost (rupees) >>
ResaleDealerTier(body_type) ==
  IF body_type = "Luxury" THEN << 150000, 25000 >>
  ELSE IF body_type \in {"Sedan", "SUV"} THEN << 120000, 15000 >>
  ELSE << 100000, 8000 >>

\* lines 152-155
ResaleDealerPrice(fair_market_retail_value, body_type) ==
  Max2(Scale(fair_market_retail_value, PPM - ResaleDealerTier(body_type)[1])
         - ResaleDealerTier(body_type)[2] * Paise, 0)

\* the whole function: what it raises, or the dict it returns (money in paise)
calculate_resale_value(vehicle_data, now) ==
  LET fail == ResaleFirstFailure(vehicle_data)
  IN  IF ~IsNone(fail)
      THEN [raised |-> TRUE, error |-> Val(fail), data |-> None]
      ELSE
        LET age_delta == relativedelta(now, vehicle_data.reg_date)
            age_months == age_delta.years * 12 + age_delta.months
            odometer == IF IsNone(vehicle_data.odometer) THEN age_months * 1000
                        ELSE Val(vehicle_data.odometer)
            base_depreciation ==
              Min2(ResaleBaseDepreciation(age_months)
                     + ResaleMileageAdjustment(odometer, age_months), 750000)
            \* 0.03 * age_years = 0.0025 * age_months
            estimated_historical ==
              Scale(vehicle_data.current_ex_showroom * Paise, PPM - 2500 * age_months)
            book0 == Scale(estimated_historical, PPM - base_depreciation)
            book1 == Scale(book0, PPM - ResaleMarketPenalty(vehicle_data.model,
                                                            vehicle_data.color, age_months))
            scrap == /\ ResaleIsNcrDiesel(vehicle_data.city, vehicle_data.fuel_type)
                     /\ age_months > 114
            book2 == IF scrap THEN Scale(estimated_historical, 20000) ELSE book1
            regional_adjustment ==
              ResaleRegionalAdjustment(vehicle_data.city, vehicle_data.fuel_type,
                                       vehicle_data.rto_code, age_months)
            book_value == Scale(book2, regional_adjustment)
            market == vehicle_data.market_listings_mean
            fair_market_value ==
              IF Truthy(market)
              THEN IF age_months < 60
                   THEN Scale(Val(market) * Paise, 700000) + Scale(book_value, 300000)
                   ELSE Scale(Val(market) * Paise, 500000) + Scale(book_value, 500000)
              ELSE book_value
            fair_market_retail_value == Scale(fair_market_value, 930000)
        IN  [ raised |-> FALSE, error |-> "",
              data |-> Some(
                [ fair_market_retail_value |-> fair_market_retail_value,
                  dealer_purchase_price |->
                    ResaleDealerPrice(fair_market_retail_value, vehicle_data.body_type),
                  metadata |->
                    [ vehicle_age_months |-> age_months,
                      estimated_odometer |-> odometer,
                      base_depreciation_percent |-> base_depreciation,
                      book_value |-> book_value,
                      regional_adjustment_factor |-> RoundDiv(regional_adjustment, 10000) ] ]) ]

BaseVehicle ==
  [ shape |-> "dict", absent |-> {},
    make |-> <<"M","a","r","u","t","i"," ","S","u","z","u","k","i">>, model |-> <<"S","w","i","f","t">>, fuel_type |-> "Petrol",
    reg_date |-> ResaleDate(92, 15), rto_code |-> <<"D","L","3","C">>, city |-> <<"D","e","l","h","i">>,
    body_type |-> "Hatchback", color |-> "White", current_ex_showroom |-> 650000,
    market_listings_mean |-> Some(425000), odometer |-> Some(45000) ]

ResaleRegs ==
  { ResaleDate(n, d) :
      n \in {0, 6, 12, 36, 37, 60, 61, 92, 97, 115, 240, 400, ResaleOldestMonths},
      d \in {10, 20} }
\* << model, fuel_type, body_type, color >>
ResaleKinds ==
  { << <<"S","w","i","f","t">>, "Petrol", "Hatchback", "White" >>,
    << <<"C","i","v","i","c">>, "Petrol", "Sedan", "Red" >>,
    << <<"C","i","t","y"," ","Z","X">>, "Diesel", "Sedan", "Silver" >>,
    << <<"N","e","x","o","n">>, "Diesel", "SUV", "Blue" >>,
    << <<"S","-","C","l","a","s","s">>, "Petrol", "Luxury", "Black" >> }
\* << city, rto_code >>
ResaleRegions ==
  { << <<"D","e","l","h","i">>, <<"D","L","3","C">> >>, << <<"N","e","w"," ","D","e","l","h","i">>, <<"D","L","1","C">> >>, << <<"M","u","m","b","a","i">>, <<"M","H","1","2">> >>,
    << <<"B","e","n","g","a","l","u","r","u">>, <<"K","A","0","1">> >>, << <<"C","h","e","n","n","a","i">>, <<"T","N","0","9">> >>, << <<"P","u","n","e">>, <<"M","H","1","4">> >> }
ResalePrices == { 650000, 2500000 }
ResaleMarkets == { None, Some(0), Some(425000) }
ResaleOdometers == { None, Some(45000), Some(MaxOdometerKm) }

ResaleInputs ==
  { [BaseVehicle EXCEPT !.reg_date = r, !.model = k[1], !.fuel_type = k[2],
                        !.body_type = k[3], !.color = k[4],
                        !.city = g[1], !.rto_code = g[2],
                        !.current_ex_showroom = p, !.market_listings_mean = mk,
                        !.odometer = o] :
      r \in ResaleRegs, k \in ResaleKinds, g \in ResaleRegions, p \in ResalePrices,
      mk \in ResaleMarkets, o \in ResaleOdometers }

\* a caller holds one vehicle_data dict and has not called yet
InitResale ==
  /\ InitValueVehicle
  /\ resale \in { Some([vehicle_data |-> v, result |-> None]) : v \in ResaleInputs }
  /\ batch = NoBatch
  /\ idv = NoIdv
  /\ grids = NoGrids
  /\ insurance = NoInsurance

\* the caller calls calculate_resale_value(vehicle_data) and keeps what it gives
CallResale ==
  /\ ~IsNone(resale)
  /\ IsNone(Val(resale).result)
  /\ resale' = Some([Val(resale) EXCEPT !.result =
                       Some(calculate_resale_value(Val(resale).vehicle_data,
                                                   ResaleNow(today)))])
  /\ UNCHANGED <<pc, payload, today, log, norm, metrics, route, eng, blend, dealer, out,
                 seen, parked, batch, idv,
               grids, insurance>>

NextResale == CallResale

SpecResale == InitResale /\ [][NextResale]_vars

(***************************************************************************)
(* batch_valuation (src/api_server.py lines 157-212): POST                 *)
(* /api/v1/valuation/batch, one calculate_resale_value per vehicle         *)
(***************************************************************************)
\* the longest "vehicles" array of a request
MaxBatch == 3

\* items of a "vehicles" array: two that value, and one each that raises a
\* KeyError, the ValueError of strptime, a TypeError
BatchItems ==
  { BaseVehicle,
    [BaseVehicle EXCEPT !.model = <<"N","e","x","o","n">>, !.fuel_type = "Diesel", !.body_type = "SUV",
                        !.city = <<"M","u","m","b","a","i">>, !.rto_code = <<"M","H","1","2">>, !.color = "Blue",
                        !.reg_date = ResaleDate(12, 10), !.market_listings_mean = None,
                        !.odometer = None],
    [BaseVehicle EXCEPT !.absent = {"color", "city"}],
    [BaseVehicle EXCEPT !.reg_date = ResaleBadDate],
    [BaseVehicle EXCEPT !.shape = "str"] }

RECURSIVE SeqsUpTo(_, _)
\* the sequences over S of length at most n
SeqsUpTo(S, n) ==
  IF n = 0 THEN { <<>> }
  ELSE LET shorter == SeqsUpTo(S, n - 1)
       IN  shorter \cup { Append(s, x) : s \in {t \in shorter : Len(t) = n - 1}, x \in S }

\* request bodies: a "vehicles" list, no "vehicles" key, "vehicles" not a list
BatchRequests ==
  { [kind |-> "list", vehicles |-> s] : s \in SeqsUpTo(BatchItems, MaxBatch) }
    \cup { [kind |-> "no vehicles key", vehicles |-> <<>>],
           [kind |-> "vehicles not a list", vehicles |-> <<>>] }

\* the request has arrived and the handler has not run
InitBatch ==
  /\ InitValueVehicle
  /\ resale = NoResale
  /\ batch \in { Some([data |-> d, idx |-> 0, results |-> <<>>, response |-> None]) :
                   d \in BatchRequests }
  /\ idv = NoIdv
  /\ grids = NoGrids
  /\ insurance = NoInsurance

\* lines 181-185: the 400 answer
BatchReject ==
  /\ ~IsNone(batch)
  /\ IsNone(Val(batch).response)
  /\ Val(batch).data.kind # "list"
  /\ batch' = Some([Val(batch) EXCEPT !.response =
                      Some([status |-> 400, success |-> FALSE, results |-> <<>>,
                            error |-> "Invalid request. Expected vehicles array."])])
  /\ UNCHANGED <<pc, payload, today, log, norm, metrics, route, eng, blend, dealer, out,
                 seen, parked, resale, idv,
               grids, insurance>>

\* one turn of the loop of lines 188-201 without the inner try: an exception
\* of calculate_resale_value reaches the outer handler of lines 208-212
BatchItemUnguarded ==
  /\ ~IsNone(batch)
  /\ IsNone(Val(batch).response)
  /\ Val(batch).data.kind = "list"
  /\ Val(batch).idx < Len(Val(batch).data.vehicles)
  /\ LET idx == Val(batch).idx
         r == calculate_resale_value(Val(batch).data.vehicles[idx + 1], ResaleNow(today))
     IN  batch' =
           IF r.raised
           THEN Some([Val(batch) EXCEPT !.response =
                        Some([status |-> 500, success |-> FALSE, results |-> <<>>,
                              error |-> r.error])])
           ELSE Some([Val(batch) EXCEPT
                        !.idx = idx + 1,
                        !.results = Append(@, [index |-> idx, success |-> TRUE,
                                               data |-> r.data, error |-> None])])
  /\ UNCHANGED <<pc, payload, today, log, norm, metrics, route, eng, blend, dealer, out,
                 seen, parked, resale, idv,
               grids, insurance>>

\* one turn of the loop of lines 188-201: the vehicle at idx is valued and its
\* entry appended, success with data or failure with str(e)
BatchItem ==
  /\ ~IsNone(batch)
  /\ IsNone(Val(batch).response)
  /\ Val(batch).data.kind = "list"
  /\ Val(batch).idx < Len(Val(batch).data.vehicles)
  /\ LET idx == Val(batch).idx
         r == calculate_resale_value(Val(batch).data.vehicles[idx + 1], ResaleNow(today))
     IN  batch' =
           Some([Val(batch) EXCEPT
                   !.idx = idx + 1,
                   !.results = Append(@, IF r.raised
                                         THEN [index |-> idx, success |-> FALSE,
                                               data |-> None, error |-> Some(r.error)]
                                         ELSE [index |-> idx, success |-> TRUE,
                                               data |-> r.data, error |-> None])])
  /\ UNCHANGED <<pc, payload, today, log, norm, metrics, route, eng, blend, dealer, out,
                 seen, parked, resale, idv,
               grids, insurance>>

\* lines 203-206: the loop is over, the 200 answer carries the results
BatchReturn ==
  /\ ~IsNone(batch)
  /\ IsNone(Val(batch).response)
  /\ Val(batch).data.kind = "list"
  /\ Val(batch).idx = Len(Val(batch).data.vehicles)
  /\ batch' = Some([Val(batch) EXCEPT !.response =
                      Some([status |-> 200, success |-> TRUE,
                            results |-> Val(batch).results, error |-> ""])])
  /\ UNCHANGED <<pc, payload, today, log, norm, metrics, route, eng, blend, dealer, out,
                 seen, parked, resale, idv,
               grids, insurance>>

NextBatch ==
  \/ BatchReject
  \/ BatchItem
  \/ BatchReturn

SpecBatch == InitBatch /\ [][NextBatch]_vars

(***************************************************************************)
(* Binary floating point (IEEE 754 binary64, round to nearest, ties to     *)
(* even), for the code whose outcome turns on a float comparison.          *)
(* A natural number of any size is a sequence of limbs, least significant  *)
(* first, in base 2^15 and without leading zero limbs; a float is          *)
(* [neg, m, e] with value (-1)^neg * m * 2^e and m below 2^53.             *)
(***************************************************************************)
LimbBits == 15
LimbBase == 2 ^ LimbBits
MantissaBits == 53

\* Op applied to the value of x (of x and y): the operand is worked out once,
\* however often Op uses it
Eval1(Op(_), x) == CHOOSE r \in { Op(v) : v \in {x} } : TRUE
Eval2(Op(_, _), x, y) == CHOOSE r \in { Op(v, w) : v \in {x}, w \in {y} } : TRUE

RECURSIVE BigOf(_)
\* the limbs of an integer n >= 0
BigOf(n) == IF n = 0 THEN <<>> ELSE <<n % LimbBase>> \o BigOf(n \div LimbBase)

RECURSIVE BigToInt(_)
\* the integer of limbs a (below 2^31)
BigToInt(a) == IF a = <<>> THEN 0 ELSE a[1] + LimbBase * BigToInt(Tail(a))

RECURSIVE BigTrim(_)
BigTrim(a) ==
  IF a = <<>> THEN a
  ELSE IF a[Len(a)] = 0 THEN BigTrim(SubSeq(a, 1, Len(a) - 1))
  ELSE a

Limb(a, i) == IF i <= Len(a) THEN a[i] ELSE 0

RECURSIVE BigAddFrom(_, _, _, _)
BigAddFrom(a, b, i, carry) ==
  IF i > Len(a) /\ i > Len(b)
  THEN (IF carry = 0 THEN <<>> ELSE <<carry>>)
  ELSE LET t == Limb(a, i) + Limb(b, i) + carry
       IN  <<t % LimbBase>> \o BigAddFrom(a, b, i + 1, t \div LimbBase)

BigAdd(a, b) == BigAddFrom(a, b, 1, 0)

RECURSIVE BigSubFrom(_, _, _, _)
BigSubFrom(a, b, i, borrow) ==
  IF i > Len(a) THEN <<>>
  ELSE LET t == Limb(a, i) - Limb(b, i) - borrow
       IN  <<t % LimbBase>> \o BigSubFrom(a, b, i + 1, IF t < 0 THEN 1 ELSE 0)

\* a - b for a >= b
BigSub(a, b) == BigTrim(BigSubFrom(a, b, 1, 0))

RECURSIVE BigCmpFrom(_, _, _)
BigCmpFrom(a, b, i) ==
  IF i = 0 THEN 0
  ELSE IF a[i] < b[i] THEN -1
  ELSE IF a[i] > b[i] THEN 1
  ELSE BigCmpFrom(a, b, i - 1)

\* -1, 0, 1 as a < b, a = b, a > b
BigCmp(a, b) ==
  IF Len(a) < Len(b) THEN -1
  ELSE IF Len(a) > Len(b) THEN 1
  ELSE BigCmpFrom(a, b, Len(a))

RECURSIVE BigMulSmallFrom(_, _, _, _)
BigMulSmallFrom(a, k, i, carry) ==
  IF i > Len(a) THEN (IF carry = 0 THEN <<>> ELSE <<carry>>)
  ELSE LET t == a[i] * k + carry
       IN  <<t % LimbBase>> \o BigMulSmallFrom(a, k, i + 1, t \div LimbBase)

\* a * k for 0 <= k < 2^15
BigMulSmall(a, k) == IF k = 0 THEN <<>> ELSE BigMulSmallFrom(a, k, 1, 0)

\* a * 2^(15 n)
BigShiftLimbs(a, n) == IF a = <<>> THEN a ELSE [i \in 1..n |-> 0] \o a

RECURSIVE BigMulFrom(_, _, _)
BigMulFrom(a, b, i) ==
  IF i > Len(b) THEN <<>>
  ELSE BigAdd(BigShiftLimbs(BigMulSmall(a, b[i]), i - 1), BigMulFrom(a, b, i + 1))

BigMul(a, b) == BigMulFrom(a, b, 1)

\* a * 2^k
BigShl(a, k) ==
  BigShiftLimbs(BigMulSmall(a, 2 ^ (k % LimbBits)), k \div LimbBits)

\* floor(a / 2^k)
BigShr(a, k) ==
  LET drop == k \div LimbBits
      bits == k % LimbBits
      kept == IF drop >= Len(a) THEN <<>> ELSE SubSeq(a, drop + 1, Len(a))
  IN  BigTrim([i \in 1..Len(kept) |->
                 (kept[i] \div (2 ^ bits))
                   + (Limb(kept, i + 1) % (2 ^ bits)) * (2 ^ (LimbBits - bits))])

RECURSIVE SmallBitLen(_)
SmallBitLen(n) == IF n = 0 THEN 0 ELSE 1 + SmallBitLen(n \div 2)

\* the number of bits of a
BigBitLen(a) ==
  IF a = <<>> THEN 0 ELSE (Len(a) - 1) * LimbBits + SmallBitLen(a[Len(a)])

\* bit k of a, bit 0 the least significant
BigBit(a, k) == (Limb(a, k \div LimbBits + 1) \div (2 ^ (k % LimbBits))) % 2

RECURSIVE BigDigit(_, _, _, _)
\* the largest digit q in lo..hi with d * q <= r
BigDigit(r, d, lo, hi) ==
  IF lo = hi THEN lo
  ELSE LET mid == (lo + hi + 1) \div 2
       IN  IF BigCmp(BigMulSmall(d, mid), r) <= 0
           THEN BigDigit(r, d, mid, hi)
           ELSE BigDigit(r, d, lo, mid - 1)

\* the digit q joins the quotient q1, the remainder r loses d * q
BigDivPut(q1, r, d, q) == << BigTrim(<<q>> \o q1), BigSub(r, BigMulSmall(d, q)) >>

\* one limb brought down: r is the remainder so far with the limb below it
BigDivDigit(q1, r, d) ==
  LET Put(q) == BigDivPut(q1, r, d, q)
  IN  Eval1(Put, BigDigit(r, d, 0, LimbBase - 1))

BigDivStep(limb, prev, d) == BigDivDigit(prev[1], BigTrim(<<limb>> \o prev[2]), d)

RECURSIVE BigDivModFrom(_, _, _)
\* long division of the limbs i.. of n by d: << quotient, remainder >>
BigDivModFrom(n, d, i) ==
  IF i > Len(n) THEN << <<>>, <<>> >>
  ELSE LET Step(prev) == BigDivStep(n[i], prev, d)
       IN  Eval1(Step, BigDivModFrom(n, d, i + 1))

\* << floor(n / d), n mod d >> for d > 0
BigDivMod(n, d) == BigDivModFrom(n, d, 1)

\* q, or q + 1 when what was dropped is above half (half > 0) or is half and
\* q is odd: round half to even
BigHalfEven(q, half) ==
  IF half > 0 \/ (half = 0 /\ BigBit(q, 0) = 1) THEN BigAdd(q, <<1>>) ELSE q

BigRoundShrOf(q, m, k) ==
  BigHalfEven(q, BigCmp(BigSub(m, BigShl(q, k)), BigShl(<<1>>, k - 1)))

\* m / 2^k rounded to the nearest integer, ties to even (k >= 1)
BigRoundShr(m, k) ==
  LET Of(q) == BigRoundShrOf(q, m, k)
  IN  Eval1(Of, BigShr(m, k))

FZero == [neg |-> FALSE, m |-> <<>>, e |-> 0]

FRoundDrop(neg, m, e, k) ==
  IF m = <<>> THEN FZero
  ELSE IF k <= 0 THEN [neg |-> neg, m |-> m, e |-> e]
  ELSE [neg |-> neg, m |-> BigRoundShr(m, k), e |-> e + k]

\* m * 2^e rounded to 53 bits, ties to even
FRound(neg, m, e) ==
  LET Drop(v) == FRoundDrop(neg, v, e, BigBitLen(v) - MantissaBits)
  IN  Eval1(Drop, m)

\* the quotient and a sticky bit for the remainder, rounded
FRatioOf(neg, qr, e) ==
  FRound(neg, BigAdd(BigAdd(qr[1], qr[1]), IF qr[2] = <<>> THEN <<>> ELSE <<1>>), e)

FRatioShifted(neg, n, d, e, s) ==
  LET Of(qr) == FRatioOf(neg, qr, e - s - 1)
  IN  Eval1(Of, BigDivMod(BigShl(n, s), d))

\* n / d * 2^e correctly rounded (n, d limbs, d > 0): the quotient is taken
\* to at least 55 bits and a sticky bit stands for the remainder
FRatio(neg, n, d, e) ==
  IF n = <<>> THEN FZero
  ELSE FRatioShifted(neg, n, d, e,
                     Max2(0, MantissaBits + 3 + BigBitLen(d) - BigBitLen(n)))

\* the float of an integer below 2^31
FInt(n) == [neg |-> n < 0, m |-> BigOf(Abs(n)), e |-> 0]

\* the float of the decimal literal n / d (n >= 0, d a power of ten)
FLit(n, d) == FRatio(FALSE, BigOf(n), BigOf(d), 0)

FNegOf(x) == IF x.m = <<>> THEN x ELSE [x EXCEPT !.neg = ~x.neg]
FNeg(x) == Eval1(FNegOf, x)
FAbs(x) == [x EXCEPT !.neg = FALSE]

\* a * 2^e and b * 2^e with their signs, c comparing a with b
FAddAligned(xneg, a, yneg, b, e, c) ==
  FRound(IF c >= 0 THEN xneg ELSE yneg,
         IF xneg = yneg THEN BigAdd(a, b)
         ELSE IF c >= 0 THEN BigSub(a, b) ELSE BigSub(b, a),
         e)

FAddShifted(xneg, a, yneg, b, e) ==
  LET Aligned(v, w) == FAddAligned(xneg, v, yneg, w, e, BigCmp(v, w))
  IN  Eval2(Aligned, a, b)

FAddAt(x, y, e) == FAddShifted(x.neg, BigShl(x.m, x.e - e), y.neg, BigShl(y.m, y.e - e), e)

FAddOf(x, y) ==
  IF x.m = <<>> THEN y
  ELSE IF y.m = <<>> THEN x
  ELSE FAddAt(x, y, Min2(x.e, y.e))

\* x + y
FAdd(x, y) == Eval2(FAddOf, x, y)

FSub(x, y) == FAdd(x, FNeg(y))

FMulOf(x, y) == FRound(x.neg # y.neg, BigMul(x.m, y.m), x.e + y.e)

\* x * y
FMul(x, y) == Eval2(FMulOf, x, y)

FDivOf(x, y) == FRatio(x.neg # y.neg, x.m, y.m, x.e - y.e)

\* x / y for y # 0
FDiv(x, y) == Eval2(FDivOf, x, y)

FSign(x) == IF x.m = <<>> THEN 0 ELSE IF x.neg THEN -1 ELSE 1

\* -1, 0, 1 as x < y, x = y, x > y
FCmp(x, y) == Eval1(FSign, FAdd(x, FNeg(y)))

FSigned(neg, n) == IF neg THEN -n ELSE n

FHundredthsOf(x) ==
  FSigned(x.neg,
          BigToInt(IF x.e >= 0 THEN BigShl(BigMulSmall(x.m, 100), x.e)
                   ELSE BigRoundShr(BigMulSmall(x.m, 100), -x.e)))

\* round(x * 10^2) as Python's round(x, 2) gives it: the nearest hundredth of
\* the exact binary value, ties to even, as a signed integer
FHundredths(x) == Eval1(FHundredthsOf, x)

(***************************************************************************)
(* calculate_idv (src/idv_calculation.py): insured declared value and the  *)
(* 20% validation against a market median.  The arithmetic is the floats'; *)
(* what the result keeps to two decimals is held in hundredths.            *)
(***************************************************************************)
\* the oldest manufacturing date given to calculate_idv, in months
IdvOldestMonths == 130

\* manufacturing_date_formatted: "%Y-%m" of the month n months before Today0
MfgDate(n) == [form |-> "iso", y |-> MonthsBack(n).y, m |-> MonthsBack(n).m, d |-> 1]
\* the key absent or the string empty
NoMfgDate == [form |-> "empty", y |-> 0, m |-> 0, d |-> 0]
BadMfgDate == [form |-> "unparseable", y |-> 0, m |-> 0, d |-> 0]

\* line 31
IdvIsElectric(fuel_type) == upper(fuel_type) \in { <<"E","L","E","C","T","R","I","C">>, <<"E","V">>, <<"B","A","T","T","E","R","Y">> }

\* line 32
IdvVehicleType(vehicle_category) ==
  IF \E x \in { <<"S","C","O","O","T","E","R">>, <<"M","O","T","O","R","C","Y","C","L","E">> } : contains(upper(vehicle_category), x)
  THEN "2W" ELSE "4W"

\* lines 44-52: age_years * 12, a whole number of months (years + months / 12
\* is below a whole bound exactly when the months are), 0 without a
\* manufacturing date
IdvAgeMonths(mfg_date, now) ==
  IF mfg_date.form = "empty" THEN 0
  ELSE relativedelta(now, mfg_date).years * 12 + relativedelta(now, mfg_date).months

\* lines 55-90: the depreciation literal, in hundredths
IdvDepreciationHundredths(vehicle_type, age_months) ==
  IF age_months < 6 THEN 5
  ELSE IF age_months < 12 THEN 15
  ELSE IF age_months < 24 THEN 20
  ELSE IF age_months < 36 THEN 30
  ELSE IF age_months < 48 THEN 40
  ELSE IF age_months < 60 THEN 50
  ELSE IF vehicle_type = "2W"
       THEN IF age_months < 84 THEN 60 ELSE 65
       ELSE IF age_months < 84 THEN 55
            ELSE IF age_months < 120 THEN 65
            ELSE 70

\* lines 55-90: depreciation
IdvDepreciation(vehicle_type, age_months) ==
  FLit(IdvDepreciationHundredths(vehicle_type, age_months), 100)

\* line 99: min(a, b)
FMinOf(a, b) == IF FCmp(b, a) < 0 THEN b ELSE a
FMin(a, b) == Eval2(FMinOf, a, b)

\* lines 110-112: the owner count penalty
IdvOwnerPenalty(calculated_idv, owner_count) ==
  IF owner_count > 1
  THEN FMul(calculated_idv, FSub(FInt(1), FMul(FInt(owner_count - 1), FLit(4, 100))))
  ELSE calculated_idv

\* lines 95-104: base price and accessories, each with its depreciation
IdvElectric(base_price, accessories_cost, depreciation, accessory_depreciation) ==
  FAdd(FMul(base_price, FSub(FInt(1), depreciation)),
       FMul(accessories_cost, FSub(FInt(1), accessory_depreciation)))

\* lines 93-112: calculated_idv
IdvCalculated(is_electric, price, depreciation, owner_count) ==
  IdvOwnerPenalty(
    IF is_electric
    THEN IdvElectric(FMul(FInt(price), FLit(85, 100)), FMul(FInt(price), FLit(15, 100)),
                     depreciation,
                     FMin(FAdd(depreciation, FLit(10, 100)), FLit(80, 100)))
    ELSE FMul(FInt(price), FSub(FInt(1), depreciation)),
    owner_count)

\* line 116: abs(calculated_idv - median) / median * 100
IdvDifference(calculated_idv, median) ==
  FMul(FDiv(FAbs(FSub(calculated_idv, FInt(median))), FInt(median)), FInt(100))

\* line 117
IdvValidationStatus(difference) ==
  IF FCmp(difference, FInt(20)) > 0
  THEN "Manual Review Required" ELSE "Within Acceptable Range"

\* max(50, x): x when x > 50, else the int 50
IdvMax50Of(x) == IF FCmp(x, FInt(50)) > 0 THEN x ELSE FInt(50)
IdvMax50(x) == Eval1(IdvMax50Of, x)

\* line 118: max(50, 100 - difference)
IdvConfidence(difference) == IdvMax50(FSub(FInt(100), difference))

\* lines 115-122, 143-146: what the result says of the validation
IdvValidated(difference, market_median_estimate) ==
  [ market_median_estimate |-> market_median_estimate,
    difference_percent |-> Some(FHundredths(difference)),
    validation_status |-> IdvValidationStatus(difference),
    confidence_score |-> FHundredths(IdvConfidence(difference)) ]

\* lines 115-122, 143-146
IdvValidation(calculated_idv, market_median_estimate) ==
  IF Truthy(market_median_estimate)
  THEN LET Validated(difference) == IdvValidated(difference, market_median_estimate)
       IN  Eval1(Validated, IdvDifference(calculated_idv, Val(market_median_estimate)))
  ELSE [ market_median_estimate |-> None,
         difference_percent |-> None,
         validation_status |-> "No Market Data",
         confidence_score |-> Max2(50 * 100, 85 * 100) ]

\* lines 131-147: the dict returned, v what it says of the validation
IdvReturned(vehicle_type, owner_count, age_months, depreciation, calculated_idv, v) ==
  [ vehicle_type |-> vehicle_type,
    owner_count |-> owner_count,
    vehicle_age_months |-> age_months,
    depreciation_percent |-> FHundredths(FMul(depreciation, FInt(100))),
    calculated_idv |-> FHundredths(calculated_idv),
    market_median_estimate |-> v.market_median_estimate,
    difference_percent |-> v.difference_percent,
    validation_status |-> v.validation_status,
    confidence_score |-> v.confidence_score ]

IdvResult(vehicle_type, owner_count, age_months, depreciation, calculated_idv,
          market_median_estimate) ==
  LET Returned(idv_value, v) ==
        IdvReturned(vehicle_type, owner_count, age_months, depreciation, idv_value, v)
      Validated(idv_value) ==
        Eval2(Returned, idv_value, IdvValidation(idv_value, market_median_estimate))
  IN  Eval1(Validated, calculated_idv)

IdvOfAge(vehicle_type, owner_count, is_electric, age_months, price, market_median_estimate) ==
  LET Result(depreciation) ==
        IdvResult(vehicle_type, owner_count, age_months, depreciation,
                  IdvCalculated(is_electric, price, depreciation, owner_count),
                  market_median_estimate)
  IN  Eval1(Result, IdvDepreciation(vehicle_type, age_months))

\* the whole function: raised, or the dict it returns
calculate_idv(rc_data, original_on_road_price, market_median_estimate, now) ==
  IF rc_data.manufacturing_date_formatted.form = "unparseable"
  THEN [raised |-> TRUE, result |-> None]
  ELSE [ raised |-> FALSE,
         result |-> Some(
           IdvOfAge(IdvVehicleType(rc_data.vehicle_category_description),
                    IF IsNone(rc_data.owner_number) THEN 1 ELSE Val(rc_data.owner_number),
                    IdvIsElectric(rc_data.fuel_type),
                    IdvAgeMonths(rc_data.manufacturing_date_formatted, now),
                    original_on_road_price,
                    market_median_estimate)) ]

BaseRc ==
  [ fuel_type |-> <<"P","E","T","R","O","L">>,
    vehicle_category_description |-> <<"M","o","t","o","r"," ","C","a","r","(","L","M","V",")">>,
    manufacturing_date_formatted |-> MfgDate(80),
    owner_number |-> None ]

IdvMfgDates ==
  { NoMfgDate, BadMfgDate, MfgDate(-2), MfgDate(0), MfgDate(6), MfgDate(30), MfgDate(59),
    MfgDate(80), MfgDate(90), MfgDate(IdvOldestMonths) }
\* << fuel_type, vehicle_category_description >>
IdvKinds ==
  { << <<"P","E","T","R","O","L">>, <<"M","o","t","o","r"," ","C","a","r","(","L","M","V",")">> >>, << <<"E","l","e","c","t","r","i","c">>, <<"M","o","t","o","r"," ","C","a","r","(","L","M","V",")">> >>,
    << <<"P","E","T","R","O","L">>, <<"S","c","o","o","t","e","r","(","2","W","N",")">> >>, << <<"e","v">>, <<"M","-","C","y","c","l","e","/","S","c","o","o","t","e","r","(","2","W","N",")">> >> }
IdvOwners == { None, Some(2), Some(3) }
IdvPrices == { 66000, 1000000 }
IdvMedians ==
  { None, Some(0), Some(-42000), Some(42000), Some(300000), Some(375000),
    Some(520000), Some(562500), Some(1000000) }

\* the arguments of one call, no result yet
IdvCall(d, k, o, p, md) ==
  [ rc_data |-> [BaseRc EXCEPT !.manufacturing_date_formatted = d,
                               !.fuel_type = k[1],
                               !.vehicle_category_description = k[2],
                               !.owner_number = o],
    original_on_road_price |-> p,
    market_median_estimate |-> md,
    result |-> None ]

\* every age band, vehicle kind and owner count, without a market median
IdvLadderInputs ==
  { IdvCall(d, k, o, 66000, None) : d \in IdvMfgDates, k \in IdvKinds, o \in IdvOwners }

\* every market median against vehicles of three ages
IdvValidationInputs ==
  { IdvCall(d, k, None, p, md) :
      d \in { MfgDate(6), MfgDate(80), MfgDate(IdvOldestMonths) },
      k \in { x \in IdvKinds : IdvVehicleType(x[2]) = "4W" },
      p \in IdvPrices, md \in IdvMedians }

IdvInputs == IdvLadderInputs \cup IdvValidationInputs

\* a caller holds the arguments and has not called yet
InitIdv ==
  /\ InitValueVehicle
  /\ resale = NoResale
  /\ batch = NoBatch
  /\ idv \in { Some(c) : c \in IdvInputs }
  /\ grids = NoGrids
  /\ insurance = NoInsurance

\* the caller calls calculate_idv and keeps what it gives
CallIdv ==
  /\ ~IsNone(idv)
  /\ IsNone(Val(idv).result)
  /\ idv' = Some([Val(idv) EXCEPT !.result =
                    Some(calculate_idv(Val(idv).rc_data, Val(idv).original_on_road_price,
                                       Val(idv).market_median_estimate, ResaleNow(today)))])
  /\ UNCHANGED <<pc, payload, today, log, norm, metrics, route, eng, blend, dealer, out,
                 seen, parked, resale, batch,
               grids, insurance>>

NextIdv == CallIdv

SpecIdv == InitIdv /\ [][NextIdv]_vars

(***************************************************************************)
(* The 5%-to-60% depreciation grid in its three places: one age in whole   *)
(* months is looked up by choose_depr_from_grid                            *)
(* (src/dual_engine_valuation.py lines 88-95), by the age ladder of        *)
(* calculate_resale_value (src/vehicle_valuation.py lines 45-65) and by    *)
(* the correction of GeminiIDVEngine._validate_idv                         *)
(* (src/gemini_idv_engine.py lines 486-514).  Fractions are in ppm.        *)
(***************************************************************************)
\* the oldest age looked up, in months
GridOldestMonths == 110

\* lines 491-510 of gemini_idv_engine.py with exclusive buckets
GeminiCorrectDepreciationExclusive(total_months) ==
  IF total_months < 6 THEN 50000
  ELSE IF total_months < 12 THEN 100000
  ELSE IF total_months < 24 THEN 180000
  ELSE IF total_months < 36 THEN 250000
  ELSE IF total_months < 48 THEN 300000
  ELSE IF total_months < 60 THEN 350000
  ELSE IF total_months < 72 THEN 400000
  ELSE IF total_months < 84 THEN 450000
  ELSE IF total_months < 96 THEN 500000
  ELSE 600000

\* lines 491-510 of gemini_idv_engine.py: correct_depreciation, a whole
\* number of percent there
GeminiCorrectDepreciation(total_months) ==
  IF total_months <= 6 THEN 50000
  ELSE IF total_months <= 12 THEN 100000
  ELSE IF total_months <= 24 THEN 180000
  ELSE IF total_months <= 36 THEN 250000
  ELSE IF total_months <= 48 THEN 300000
  ELSE IF total_months <= 60 THEN 350000
  ELSE IF total_months <= 72 THEN 400000
  ELSE IF total_months <= 84 THEN 450000
  ELSE IF total_months <= 96 THEN 500000
  ELSE 600000

\* a caller holds one age and has looked nothing up yet
InitGrid ==
  /\ InitValueVehicle
  /\ resale = NoResale
  /\ batch = NoBatch
  /\ idv = NoIdv
  /\ insurance = NoInsurance
  /\ grids \in { Some([months |-> m, dual |-> None, resale |-> None, gemini |-> None]) :
                   m \in 0..GridOldestMonths }

\* choose_depr_from_grid(m / 12)
GridLookup ==
  /\ ~IsNone(grids)
  /\ IsNone(Val(grids).dual)
  /\ grids' = Some([Val(grids) EXCEPT !.dual =
                      Some(choose_depr_from_grid(RoundDiv(Val(grids).months * Milli, 12)))])
  /\ UNCHANGED <<pc, payload, today, log, norm, metrics, route, eng, blend, dealer, out,
                 seen, parked, resale, batch, idv, insurance>>

\* the ladder of calculate_resale_value, before its mileage adjustment
LadderLookup ==
  /\ ~IsNone(grids)
  /\ IsNone(Val(grids).resale)
  /\ grids' = Some([Val(grids) EXCEPT !.resale =
                      Some(ResaleBaseDepreciation(Val(grids).months))])
  /\ UNCHANGED <<pc, payload, today, log, norm, metrics, route, eng, blend, dealer, out,
                 seen, parked, resale, batch, idv, insurance>>

\* the correction of _validate_idv
BucketLookup ==
  /\ ~IsNone(grids)
  /\ IsNone(Val(grids).gemini)
  /\ grids' = Some([Val(grids) EXCEPT !.gemini =
                      Some(GeminiCorrectDepreciation(Val(grids).months))])
  /\ UNCHANGED <<pc, payload, today, log, norm, metrics, route, eng, blend, dealer, out,
                 seen, parked, resale, batch, idv, insurance>>

NextGrid ==
  \/ GridLookup
  \/ LadderLookup
  \/ BucketLookup

SpecGrid == InitGrid /\ [][NextGrid]_vars

(***************************************************************************)
(* InsuranceGradeValuationEngine.calculate_idv                             *)
(* (src/insurance_grade_engine.py lines 26-140): the market-cache gate,    *)
(* the variant ratio, 0.8% depreciation a month, the owner adjustment and  *)
(* the rounding to 1,000.  The arithmetic is the floats'; what the result  *)
(* keeps to two decimals is held in hundredths.                            *)
(***************************************************************************)
MONTHLY_DEPRECIATION_RATE == FLit(8, 1000)
OWNER_2_PENALTY == FLit(97, 100)
OWNER_3_PLUS_PENALTY == FLit(94, 100)
MARKET_CACHE_MAX_AGE_DAYS == 45

\* the oldest manufacturing month given to the engine, in months
InsOldestMonths == 130

FNearestOf(x) ==
  FSigned(x.neg, BigToInt(IF x.e >= 0 THEN BigShl(x.m, x.e) ELSE BigRoundShr(x.m, -x.e)))

\* round(x) as Python gives it: the nearest integer, ties to even
FNearest(x) == Eval1(FNearestOf, x)

\* float(input_data.get(key, 0))
InsFloat(o) == IF IsNone(o) THEN FZero ELSE FInt(Val(o))

\* line 42: input_data.get('market_cache_age_days', 0)
InsCacheAge(input_data) ==
  IF IsNone(input_data.market_cache_age_days) THEN 0
  ELSE Val(input_data.market_cache_age_days)

\* line 43 with a cache of exactly the maximum age refused
InsCacheStaleAtMax(market_cache_age) == market_cache_age >= MARKET_CACHE_MAX_AGE_DAYS

\* line 43
InsCacheStale(market_cache_age) == market_cache_age > MARKET_CACHE_MAX_AGE_DAYS

\* lines 80-81
InsMonthsOld(input_data, now) ==
  (now.y - Val(input_data.manufacturing_year)) * 12
    + (now.m - Val(input_data.manufacturing_month))

\* line 83
InsDepreciated(adjusted_market_value, months_old) ==
  FMul(adjusted_market_value,
       FSub(FInt(1), FMul(MONTHLY_DEPRECIATION_RATE, FInt(months_old))))

\* lines 86-94: owner_adjustment_applied
InsOwnerAdjustment(owner_count) ==
  IF owner_count = 2 THEN OWNER_2_PENALTY
  ELSE IF owner_count >= 3 THEN OWNER_3_PLUS_PENALTY
  ELSE FInt(1)

\* lines 89-94: the value after the owner adjustment
InsOwnerAdjusted(depreciated_value, owner_count) ==
  IF owner_count = 2 \/ owner_count >= 3
  THEN FMul(depreciated_value, InsOwnerAdjustment(owner_count))
  ELSE depreciated_value

\* line 97: round(depreciated_value / 1000) * 1000
InsFinalIdv(depreciated_value) == FNearest(FDiv(depreciated_value, FInt(1000))) * 1000

\* lines 146-161 of _calculate_confidence, one penalty after the other
InsFreshness(market_age) ==
  IF market_age > 30 THEN FSub(FInt(1), FLit(1, 10))
  ELSE IF market_age > 15 THEN FSub(FInt(1), FLit(5, 100))
  ELSE FInt(1)
InsVariantAccuracy(confidence, variant_ratio) ==
  IF FCmp(variant_ratio, FLit(8, 10)) < 0 \/ FCmp(variant_ratio, FLit(13, 10)) > 0
  THEN FSub(confidence, FLit(15, 100)) ELSE confidence
InsAgePrecision(confidence, months_old) ==
  IF months_old <= 12 THEN FAdd(confidence, FLit(5, 100)) ELSE confidence
InsDataQuality(confidence, market_mean) ==
  IF FSign(market_mean) = 0 THEN FSub(confidence, FLit(3, 10)) ELSE confidence

\* line 163: max(0.0, min(1.0, confidence))
InsClampOf(confidence) ==
  IF FSign(confidence) < 0 THEN FZero
  ELSE IF FCmp(confidence, FInt(1)) > 0 THEN FInt(1)
  ELSE confidence

\* lines 142-163
InsConfidence(market_age, variant_ratio, months_old, market_mean) ==
  Eval1(InsClampOf,
        InsDataQuality(
          InsAgePrecision(InsVariantAccuracy(InsFreshness(market_age), variant_ratio),
                          months_old),
          market_mean))

\* lines 119-140: the dict of a SUCCESS
InsReturned(months_old, owner_count, confidence, adjusted_market_value, depreciated_value) ==
  [ status |-> "SUCCESS",
    final_idv |-> Some(InsFinalIdv(depreciated_value)),
    adjusted_market_value |-> Some(FHundredths(adjusted_market_value)),
    months_old |-> Some(months_old),
    owner_adjustment_applied |-> Some(FHundredths(InsOwnerAdjustment(owner_count))),
    confidence_score |-> Some(FHundredths(confidence)),
    value_after_depreciation |-> Some(FHundredths(depreciated_value)) ]

\* lines 70-140, the prices being there
InsSuccess(input_data, market_cache_age, months_old, owner_count) ==
  LET WithRatio(variant_ratio) ==
        LET WithAdjusted(adjusted_market_value) ==
              LET Returned(confidence, depreciated_value) ==
                    InsReturned(months_old, owner_count, confidence,
                                adjusted_market_value, depreciated_value)
              IN  Eval2(Returned,
                        InsConfidence(market_cache_age, variant_ratio, months_old,
                                      InsFloat(input_data.market_listings_mean)),
                        InsOwnerAdjusted(InsDepreciated(adjusted_market_value, months_old),
                                         owner_count))
        IN  Eval1(WithAdjusted, FMul(InsFloat(input_data.market_listings_mean), variant_ratio))
  IN  Eval1(WithRatio, FDiv(InsFloat(input_data.variant_ex_showroom),
                            InsFloat(input_data.base_ex_showroom)))

\* a dict without final_idv
InsRefused(status) ==
  [ status |-> status, final_idv |-> None, adjusted_market_value |-> None,
    months_old |-> None, owner_adjustment_applied |-> None, confidence_score |-> None,
    value_after_depreciation |-> None ]

\* the whole method: raised (int(None) at line 74), or the dict it returns
insurance_calculate_idv(input_data, now) ==
  IF InsCacheStale(InsCacheAge(input_data))
  THEN [raised |-> FALSE, result |-> Some(InsRefused("MARKET_REFRESH_REQUIRED"))]
  ELSE IF FSign(InsFloat(input_data.base_ex_showroom)) = 0
          \/ FSign(InsFloat(input_data.variant_ex_showroom)) = 0
  THEN [raised |-> FALSE, result |-> Some(InsRefused("ERROR"))]
  ELSE IF IsNone(input_data.manufacturing_year) \/ IsNone(input_data.manufacturing_month)
  THEN [raised |-> TRUE, result |-> None]
  ELSE [ raised |-> FALSE,
         result |-> Some(InsSuccess(input_data, InsCacheAge(input_data),
                                    InsMonthsOld(input_data, now),
                                    IF IsNone(input_data.owner_count) THEN 1
                                    ELSE Val(input_data.owner_count))) ]

\* the arguments of one call, no result yet; n is the age in months or None
InsCall(cache, prices, mean, n, owner) ==
  [ input_data |->
      [ market_cache_age_days |-> cache,
        base_ex_showroom |-> prices[1],
        variant_ex_showroom |-> prices[2],
        market_listings_mean |-> mean,
        manufacturing_year |-> IF IsNone(n) THEN None ELSE Some(MonthsBack(Val(n)).y),
        manufacturing_month |-> IF IsNone(n) THEN None ELSE Some(MonthsBack(Val(n)).m),
        owner_count |-> owner ],
    result |-> None ]

\* every cache age against prices that are there, zero or absent
InsGateInputs ==
  { InsCall(c, p, mn, n, None) :
      c \in { None, Some(0), Some(16), Some(31), Some(MARKET_CACHE_MAX_AGE_DAYS),
              Some(MARKET_CACHE_MAX_AGE_DAYS + 1), Some(90) },
      p \in { << None, None >>, << Some(0), Some(1650000) >>, << Some(1100000), Some(0) >>,
              << Some(1100000), Some(1650000) >> },
      mn \in { None, Some(1326250) },
      n \in { None, Some(24) } }

\* every owner count against ages up to the oldest, with a fresh cache
InsAgeInputs ==
  { InsCall(Some(5), p, mn, Some(n), o) :
      p \in { << Some(1100000), Some(1650000) >>, << Some(800000), Some(800000) >> },
      mn \in { Some(0), Some(437), Some(1326250) },
      n \in { -2, 0, 12, 13, 60, 124, 125, 126, InsOldestMonths },
      o \in { None, Some(1), Some(2), Some(3), Some(5) } }

InsInputs == InsGateInputs \cup InsAgeInputs

\* a caller holds the arguments and has not called yet
InitInsurance ==
  /\ InitValueVehicle
  /\ resale = NoResale
  /\ batch = NoBatch
  /\ idv = NoIdv
  /\ grids = NoGrids
  /\ insurance \in { Some(c) : c \in InsInputs }

\* the caller calls calculate_idv and keeps what it gives
CallInsurance ==
  /\ ~IsNone(insurance)
  /\ IsNone(Val(insurance).result)
  /\ insurance' = Some([Val(insurance) EXCEPT !.result =
                          Some(insurance_calculate_idv(Val(insurance).input_data, today))])
  /\ UNCHANGED <<pc, payload, today, log, norm, metrics, route, eng, blend, dealer, out,
                 seen, parked, resale, batch, idv, grids>>

NextInsurance == CallInsurance

SpecInsurance == InitInsurance /\ [][NextInsurance]_vars

(***************************************************************************)
(* Properties                                                              *)
(***************************************************************************)
Fair == Val(out).pricing.fair_market_retail_value
Offer == Val(out).pricing.dealer_purchase_offer
DoneBy(engine) == pc = "Done" /\ Val(out).engine_used = engine

\* C1: every ICE call that returns has
\* 0 <= dealer_purchase_offer <= fair_market_retail_value.
\* Stated as the claim states it; the ICE engine has no floor on its retail value.
C1_IceOfferWithinRetail ==
  DoneBy("ICE") => (0 <= Offer /\ Offer <= Fair)

C2_DelhiDieselPastScrapAge ==
  /\ lower(payload.fuel_type) = <<"d","i","e","s","e","l">>
  /\ \/ contains(lower(payload.city), <<"d","e","l","h","i">>)
     \/ startswith(lower(payload.city), <<"n","c","r">>)
     \/ startswith(upper(payload.rto_code), <<"D","L">>)
  /\ metrics.age_years >= 9500

C3_HighestBreakpoint ==
  CHOOSE k \in DOMAIN ice_depr_grid : \A j \in DOMAIN ice_depr_grid : k >= j

\* C3 as claimed: for every age greater than or equal to the highest grid
\* breakpoint (8.0 years included) the base depreciation is the floor 0.60.
C3_FloorFromHighestBreakpoint ==
  (~IsNone(eng.base_depr_pct) /\ metrics.age_years >= C3_HighestBreakpoint)
    => Val(eng.base_depr_pct) = ice_depr_floor_after_8y

\* C3 amended: for every age strictly greater than the highest grid
\* breakpoint the base depreciation is the floor 0.60, however far beyond.
C3_FloorBeyondHighestBreakpoint ==
  (~IsNone(eng.base_depr_pct) /\ metrics.age_years > C3_HighestBreakpoint)
    => Val(eng.base_depr_pct) = ice_depr_floor_after_8y

C3_Witness ==
  /\ ~IsNone(eng.base_depr_pct)
  /\ metrics.age_months = 98
  /\ Val(eng.base_depr_pct) = ice_depr_floor_after_8y

C4_ThresholdPct == IF route.engine_used = "EV" THEN 40 ELSE 35

\* |market - intrinsic| / intrinsic >= pct / 100, for intrinsic > 0
C4_RatioAtLeast(pct) ==
  /\ eng.intrinsic > 0
  /\ Abs(blend.market - eng.intrinsic) >=
       pct * (eng.intrinsic \div 100) + (pct * (eng.intrinsic % 100) + 99) \div 100

\* |market - intrinsic| / intrinsic > pct / 100, for intrinsic > 0
C4_RatioAbove(pct) ==
  /\ eng.intrinsic > 0
  /\ Abs(blend.market - eng.intrinsic) >
       pct * (eng.intrinsic \div 100) + (pct * (eng.intrinsic % 100)) \div 100

\* C4 as claimed: whenever a market mean is used and the divergence is greater
\* than or equal to the threshold (0.35 ICE, 0.40 EV), the market weight used is
\* strictly lower than the age-tier baseline weight.
C4_AtThresholdReducesWeight ==
  (blend.market_used /\ C4_RatioAtLeast(C4_ThresholdPct))
    => blend.m_w < blend.base_weight

\* C4 amended: whenever a market mean is used and the divergence is strictly
\* greater than the threshold (0.35 ICE, 0.40 EV), the market weight used is
\* strictly lower than the age-tier baseline weight.
C4_AboveThresholdReducesWeight ==
  (blend.market_used /\ C4_RatioAbove(C4_ThresholdPct))
    => blend.m_w < blend.base_weight

C4_Witness ==
  /\ blend.market_used
  /\ route.engine_used = "ICE"
  /\ C4_RatioAbove(35)
  /\ blend.base_weight = market_weight_age_over_6
  /\ blend.m_w = 350000

\* C5: the battery SoH that ev_engine computes lies in [0.55, 1.0], and so
\* does the battery_soh it reports, at every age and annual running.
C5_SohClamped ==
  ~IsNone(eng.soh) =>
    /\ ev_min_soh <= Val(eng.soh) /\ Val(eng.soh) <= PPM
    /\ ~IsNone(blend.result) =>
         /\ ev_min_soh \div Milli <= Val(blend.result).battery_soh
         /\ Val(blend.result).battery_soh <= Milli

C5_Witness ==
  /\ DoneBy("EV")
  /\ metrics.age_years > 20 * Milli
  /\ Val(eng.soh) = ev_min_soh
  /\ Val(out).breakdown_log.internal_breakdown.battery_soh = 550

\* C6: a call that ends with the payload and the current date of an earlier
\* call ends as that call did: the same return or raise, and the same output
\* record (pricing, vehicle_metrics, ordered breakdown log), whatever calls
\* ran in between.
C6_Deterministic ==
  (pc \in {"Done", "Error"} /\ ~IsNone(seen)
     /\ Val(seen).payload = payload /\ Val(seen).now = norm.now)
    => (Val(seen).pc = pc /\ Val(seen).out = out)

C6_Witness ==
  /\ pc = "Done"
  /\ ~IsNone(seen)
  /\ Val(seen).payload = payload
  /\ Val(seen).now = norm.now
  /\ Val(seen).later = 2
  /\ Val(seen).out = out
  /\ Len(Val(out).breakdown_log.steps) > 3

\* C7: every EV call that returns, with battery capacity and cost per kWh
\* non-negative, has fair_market_retail_value >= 0 and
\* 0 <= dealer_purchase_offer <= fair_market_retail_value.
C7_EvOfferWithinRetail ==
  (DoneBy("EV") /\ Val(payload.battery_capacity_kwh) >= 0 /\ eng.cost_per_kwh >= 0)
    => (Fair >= 0 /\ 0 <= Offer /\ Offer <= Fair)

C7_Witness ==
  /\ DoneBy("EV")
  /\ Val(payload.battery_capacity_kwh) = 0
  /\ Fair = 0
  /\ Offer = 0

C8_MissingRequired ==
  \/ route.engine_used = "EV" /\ IsNone(payload.battery_capacity_kwh)
  \/ /\ route.engine_used = "ICE"
     /\ IsNone(payload.historical_onroad_price)
     /\ IsNone(payload.current_ex_showroom)

\* C8: a call routed to the EV engine without battery_capacity_kwh, or to the
\* ICE engine with neither historical_onroad_price nor current_ex_showroom,
\* ends in the error: it never reaches blending, dealer pricing or a result
\* record, and the engine has run at most once. No other call ends in error.
C8_MissingInputIsTerminal ==
  /\ C8_MissingRequired =>
       /\ pc \in {"EngineComputing", "Error"}
       /\ out = NoOut
       /\ ~dealer.computed
       /\ IsNone(blend.result)
       /\ route.ice_runs + route.ev_runs = (IF pc = "Error" THEN 1 ELSE 0)
  /\ pc = "Error" => C8_MissingRequired

C8_Witness ==
  /\ pc = "Error"
  /\ route.engine_used = "ICE"
  /\ payload.market_listings_mean = Some(425000)
  /\ out = NoOut

\* C9: for a body type that is not in the dealer tables the offer is the one
\* of the Hatchback tier: margin 0.10 and, for ICE, refurbishment 8000.
\* Stated as the claim states it; the code falls back to margin 0.12 and, for
\* ICE, refurbishment 0.
C9_UnknownBodyUsesHatchbackTier ==
  (pc = "Done" /\ norm.body_type \notin BodyTable)
    => /\ dealer.margin_pct = dealer_margin["Hatchback"]
       /\ Val(out).engine_used = "ICE"
            => dealer.refurbishment = refurbishment_cost_ICE["Hatchback"]
       /\ Offer = compute_dealer_offer(Fair, "Hatchback", route.is_ev)[1]

\* C10: the call is routed to the EV engine exactly when fuel_type, trimmed
\* and compared without regard to case, is "electric", and to the ICE engine
\* otherwise; only the engine routed to runs, once, and engine_used in the
\* result names it.
C10_RoutesByFuel ==
  route.engine_used # "" =>
    /\ route.engine_used =
         (IF lower(strip(payload.fuel_type)) = <<"e","l","e","c","t","r","i","c">> THEN "EV" ELSE "ICE")
    /\ route.engine_used = "EV" => route.ice_runs = 0
    /\ route.engine_used = "ICE" => route.ev_runs = 0
    /\ route.ice_runs + route.ev_runs = (IF pc = "EngineComputing" THEN 0 ELSE 1)
    /\ pc = "Done" => Val(out).engine_used = route.engine_used

C10_Witness ==
  /\ pc = "Done"
  /\ payload.fuel_type = <<" "," ","E","l","e","c","t","r","i","c"," ">>
  /\ Val(out).engine_used = "EV"
  /\ route.ev_runs = 1
  /\ route.ice_runs = 0

\* C11: the base depreciation of an ICE valuation is the grid fraction of the
\* smallest breakpoint greater than or equal to the age, never a value between
\* two grid fractions; a vehicle exactly 5 years 0 months old gets 0.35.
C11_SmallestBreakpointAtOrAbove ==
  ~IsNone(eng.base_depr_pct) =>
    /\ \A k \in DOMAIN ice_depr_grid :
         ( /\ metrics.age_years <= k
           /\ \A j \in DOMAIN ice_depr_grid : j < k => metrics.age_years > j )
           => Val(eng.base_depr_pct) = ice_depr_grid[k]
    /\ Val(eng.base_depr_pct) \in
         {ice_depr_grid[k] : k \in DOMAIN ice_depr_grid} \cup {ice_depr_floor_after_8y}
    /\ metrics.age_months = 60 => Val(eng.base_depr_pct) = 350000

C11_Witness ==
  /\ pc = "Done"
  /\ payload.model = <<"S","w","i","f","t">>
  /\ metrics.age_months = 60
  /\ metrics.age_years = 5 * Milli
  /\ Val(eng.base_depr_pct) = 350000

C12_ScenarioA ==
  /\ payload.make = <<"M","a","r","u","t","i"," ","S","u","z","u","k","i">>
  /\ payload.model = <<"S","w","i","f","t">>
  /\ payload.fuel_type = <<"P","e","t","r","o","l">>
  /\ payload.body_type = "Hatchback"
  /\ payload.reg_date = MonthsBack(60)
  /\ payload.current_ex_showroom = Some(650000)
  /\ payload.historical_onroad_price = None
  /\ payload.market_listings_mean = Some(425000)
  /\ payload.rto_code = <<"D","L","3","C">>
  /\ payload.city = <<"D","e","l","h","i">>
  /\ payload.odometer = None

\* C12 as claimed: for Scenario A run through value_vehicle the convergence
\* step blends with a market weight of 0.5 and a book weight of 0.5.
C12_ScenarioABlendsHalfHalf ==
  (C12_ScenarioA /\ ~IsNone(blend.result))
    => /\ blend.market_used
       /\ blend.m_w = 500000
       /\ PPM - blend.m_w = 500000

\* C12 amended: for Scenario A run through value_vehicle the convergence step
\* blends with a market weight of 0.6 and a book weight of 0.4: the age 5.0 is
\* in the 3-to-6-year tier and the market mean is within 35% of the book value,
\* so the tier weight is not reduced.
C12_ScenarioABlendsSixtyForty ==
  (C12_ScenarioA /\ ~IsNone(blend.result))
    => /\ blend.market_used
       /\ ~blend.reduced
       /\ blend.m_w = 600000
       /\ PPM - blend.m_w = 400000
       /\ blend.blended = Scale(blend.market, 600000) + Scale(eng.book_value, 400000)

C12_Witness ==
  /\ pc = "Done"
  /\ C12_ScenarioA
  /\ metrics.age_years = 5 * Milli
  /\ metrics.odometer = 50000
  /\ eng.book_value = 383292 * Paise
  /\ blend.m_w = market_weight_age_3_to_6
  /\ Fair = 383818

C13_DelhiDieselInPanicAge ==
  /\ lower(payload.fuel_type) = <<"d","i","e","s","e","l">>
  /\ \/ contains(lower(payload.city), <<"d","e","l","h","i">>)
     \/ startswith(lower(payload.city), <<"n","c","r">>)
     \/ startswith(upper(payload.rto_code), <<"D","L">>)
  /\ 8 * Milli <= metrics.age_years
  /\ 2 * metrics.age_years < 19 * Milli

C13_PanicEntries ==
  {i \in DOMAIN log : log[i].tag = "NCR diesel panic penalty applied"}

C14_Soh(o) == Val(o).breakdown_log.internal_breakdown.battery_soh

\* the call that just returned and the remembered one are EV valuations on
\* the same date of payloads that differ in battery_chemistry only, lfp being
\* the chemistry of the first and nmc of the second, at age 4 years
C14_PairedByChemistry(lfp, lfpOut, nmc, nmcOut) ==
  /\ lfp.battery_chemistry = <<"L","F","P">>
  /\ nmc.battery_chemistry = <<"N","M","C">>
  /\ [lfp EXCEPT !.battery_chemistry = <<"N","M","C">>] = nmc
  /\ Val(lfpOut).engine_used = "EV"
  /\ Val(nmcOut).engine_used = "EV"
  /\ Val(lfpOut).vehicle_metrics.age_years = 4 * Milli
  /\ Val(nmcOut).vehicle_metrics.age_years = 4 * Milli
  /\ Val(lfpOut).vehicle_metrics.avg_annual_running =
       Val(nmcOut).vehicle_metrics.avg_annual_running

\* C14: of two returned EV valuations whose payloads differ only in battery
\* chemistry, at age 4 years and with the same average annual running, the
\* LFP one reports a battery_soh strictly greater than the NMC one.
C14_LfpSohAboveNmc ==
  (pc = "Done" /\ ~IsNone(seen) /\ Val(seen).pc = "Done" /\ Val(seen).now = norm.now)
    => /\ C14_PairedByChemistry(payload, out, Val(seen).payload, Val(seen).out)
            => C14_Soh(out) > C14_Soh(Val(seen).out)
       /\ C14_PairedByChemistry(Val(seen).payload, Val(seen).out, payload, out)
            => C14_Soh(Val(seen).out) > C14_Soh(out)

C14_Witness ==
  /\ pc = "Done"
  /\ ~IsNone(seen)
  /\ Val(seen).pc = "Done"
  /\ Val(seen).now = norm.now
  /\ C14_PairedByChemistry(payload, out, Val(seen).payload, Val(seen).out)
  /\ metrics.avg_annual_running > ev_high_usage_threshold_km
  /\ C14_Soh(out) = 900
  /\ C14_Soh(Val(seen).out) = 860

C15_NoUsableRegDate == payload.reg_date.form # "iso"

C15_Warnings == {i \in DOMAIN log : log[i].tag = "reg_date missing or invalid"}

\* C15: when reg_date is absent or cannot be parsed the call does not fail on
\* that account: age_years and age_months are 0, the warning is the first and
\* only such entry of the audit log, every step up to the return has what it
\* needs to run, the only error is the one of a missing required price or battery
\* input, and a returned valuation is a success that treats the vehicle as
\* new (age 0, default annual running, lowest depreciation bucket or full SoH).
C15_MissingRegDateIsAgeZero ==
  (C15_NoUsableRegDate /\ pc \notin {"Idle", "Normalizing"})
    => /\ metrics.age_years = 0
       /\ metrics.age_months = 0
       /\ log # <<>>
       /\ log[1].tag = "reg_date missing or invalid"
       /\ Cardinality(C15_Warnings) = 1
       /\ metrics.avg_annual_running = default_avg_annual_km
       /\ IsNone(payload.odometer) => metrics.odometer = 0
       /\ pc = "Error" => C8_MissingRequired
       /\ pc \in {"EngineComputing", "Blending"} => route.engine_used \in {"ICE", "EV"}
       /\ pc = "DealerPricing" => ~IsNone(blend.result)
       /\ pc = "Done" =>
            /\ Val(out).status = "success"
            /\ Val(out).vehicle_metrics.age_years = 0
            /\ Val(out).vehicle_metrics.age_months = 0
            /\ Val(out).breakdown_log.steps[1].tag = "reg_date missing or invalid"
            /\ route.engine_used = "ICE" => Val(eng.base_depr_pct) = 50000
            /\ route.engine_used = "EV" => Val(eng.soh) = PPM

C15_Witness ==
  /\ pc = "Done"
  /\ payload.reg_date = NoDate
  /\ payload.odometer = None
  /\ metrics.age_years = 0
  /\ log[1].tag = "reg_date missing or invalid"
  /\ eng.hist_onroad = 650000 * Paise
  /\ Fair > 0

C16_NoMarketMean ==
  \/ IsNone(payload.market_listings_mean)
  \/ Val(payload.market_listings_mean) <= 0

C16_BlendEntries ==
  {i \in DOMAIN log : log[i].tag \in {"Blended market", "Blended EV value",
                                       "Market listings diverge, reducing market weight",
                                       "Market divergence, reducing market weight"}}

\* C16: when market_listings_mean is absent or not greater than zero, the
\* convergence step of either engine leaves the intrinsic value unchanged: the
\* blended value is the book value (ICE) or the battery running value (EV)
\* exactly, no market weight is used and no blend is logged; the ICE retail
\* value is that book value times the negotiation buffer and the EV retail
\* value is the battery running value.
C16_NoMarketPassesIntrinsicThrough ==
  (C16_NoMarketMean /\ ~IsNone(blend.result) /\ ~eng.scrap)
    => /\ ~blend.market_used
       /\ blend.blended = eng.intrinsic
       /\ blend.blended = eng.book_value
       /\ C16_BlendEntries = {}
       /\ route.engine_used = "ICE" =>
            Val(blend.result).fair_market_retail_value =
              RoundDiv(Scale(eng.book_value, negotiation_buffer_default), Paise)
       /\ route.engine_used = "EV" =>
            /\ Val(blend.result).fair_market_retail_value = RoundDiv(eng.intrinsic, Paise)
            /\ Val(blend.result).battery_running_value =
                 Val(blend.result).fair_market_retail_value

C16_Witness ==
  /\ pc = "Done"
  /\ payload.market_listings_mean = Some(0)
  /\ route.engine_used = "ICE"
  /\ eng.book_value > 0
  /\ blend.blended = eng.book_value
  /\ log[Len(log) - 2].tag = "No market_listings_mean provided"

C18_Returned ==
  /\ ~IsNone(resale)
  /\ ~IsNone(Val(resale).result)
  /\ ~Val(Val(resale).result).raised

C18_Data == Val(Val(Val(resale).result).data)

C18_RegNotInFuture ==
  LET r == Val(resale).vehicle_data.reg_date
      n == ResaleNow(today)
  IN  \/ r.y * 12 + r.m < n.y * 12 + n.m
      \/ r.y * 12 + r.m = n.y * 12 + n.m /\ r.d <= n.d

\* C18: every call of calculate_resale_value with current_ex_showroom > 0 and
\* a registration date not in the future, at any age and with or without a
\* market mean, returns fair_market_retail_value > 0 and
\* 0 <= dealer_purchase_price < fair_market_retail_value.
\* Stated as the claim states it; the function has no floor on the estimated
\* historical price, which is zero at 33 years 4 months and negative beyond.
C18_RetailPositiveDealerBelow ==
  (C18_Returned /\ Val(resale).vehicle_data.current_ex_showroom > 0 /\ C18_RegNotInFuture)
    => /\ C18_Data.fair_market_retail_value > 0
       /\ 0 <= C18_Data.dealer_purchase_price
       /\ C18_Data.dealer_purchase_price < C18_Data.fair_market_retail_value

C17_Vehicles == Val(batch).data.vehicles

\* what calculate_resale_value does with vehicle i of the request, called alone
C17_Alone(i) == calculate_resale_value(C17_Vehicles[i], ResaleNow(today))

C17_EntryMatches(entry, i) ==
  /\ entry.index = i - 1
  /\ entry.success = ~C17_Alone(i).raised
  /\ entry.success => (entry.data = C17_Alone(i).data /\ ~IsNone(entry.data)
                         /\ IsNone(entry.error))
  /\ ~entry.success => (entry.error = Some(C17_Alone(i).error) /\ IsNone(entry.data))

\* C17: for a request with a list of N vehicles the batch handler answers 200
\* with exactly N results in input order; result i carries index i and either
\* success with the data calculate_resale_value gives for vehicle i alone, or
\* failure with its error; a failing item neither ends the loop nor alters
\* another item's entry, and entries once appended are never changed.
C17_BatchIsolatesFailures ==
  (~IsNone(batch) /\ Val(batch).data.kind = "list")
    => /\ Len(Val(batch).results) = Val(batch).idx
       /\ Val(batch).idx <= Len(C17_Vehicles)
       /\ \A i \in DOMAIN Val(batch).results : C17_EntryMatches(Val(batch).results[i], i)
       /\ ~IsNone(Val(batch).response) =>
            /\ Val(Val(batch).response).status = 200
            /\ Val(Val(batch).response).success
            /\ Len(Val(Val(batch).response).results) = Len(C17_Vehicles)
            /\ \A i \in DOMAIN C17_Vehicles :
                 C17_EntryMatches(Val(Val(batch).response).results[i], i)

C17_Witness ==
  /\ ~IsNone(batch)
  /\ ~IsNone(Val(batch).response)
  /\ Len(C17_Vehicles) = 3
  /\ Val(Val(batch).response).status = 200
  /\ ~Val(Val(batch).response).results[1].success
  /\ Val(Val(batch).response).results[2].success
  /\ Val(Val(batch).response).results[2].index = 1
  /\ ~Val(Val(batch).response).results[3].success
  /\ C17_Vehicles[1] # C17_Vehicles[3]

C19_Returned ==
  /\ ~IsNone(idv)
  /\ ~IsNone(Val(idv).result)
  /\ ~Val(Val(idv).result).raised

C19_Result == Val(Val(Val(idv).result).result)

C19_Median == Val(idv).market_median_estimate

\* |calculated_idv - median| / median > 20 / 100 on the values the result
\* holds, in hundredths; the quotient is negative for a negative median
C19_Above20 ==
  /\ Val(C19_Median) > 0
  /\ 5 * Abs(C19_Result.calculated_idv - Val(C19_Median) * 100) > Val(C19_Median) * 100

\* C19: every result of calculate_idv has validation_status "Manual Review
\* Required" exactly when a market median is supplied and
\* |calculated_idv - median| / median exceeds 20%, "Within Acceptable Range"
\* exactly when one is supplied and the difference is at most 20%, "No Market
\* Data" exactly when none is supplied; confidence_score is in [50, 100].
\* Stated as the claim states it.  The function compares a float quotient
\* that can lie above 20 when the difference is 20% exactly, takes a median
\* of 0 as none, and has no upper bound on the score for a negative median.
C19_TwentyPercentRule ==
  C19_Returned =>
    /\ (C19_Result.validation_status = "Manual Review Required")
         <=> (~IsNone(C19_Median) /\ C19_Above20)
    /\ (C19_Result.validation_status = "Within Acceptable Range")
         <=> (~IsNone(C19_Median) /\ ~C19_Above20)
    /\ (C19_Result.validation_status = "No Market Data") <=> IsNone(C19_Median)
    /\ 50 * 100 <= C19_Result.confidence_score
    /\ C19_Result.confidence_score <= 100 * 100

\* the pipeline stage an audit-log entry is written in
C20_Stage(tag) ==
  IF tag \in {"reg_date missing or invalid", "Estimated odometer"} THEN "Normalizing"
  ELSE IF tag \in {"Market listings diverge, reducing market weight", "Blended market",
                   "No market_listings_mean provided", "Negotiation buffer applied",
                   "Market divergence, reducing market weight", "Blended EV value",
                   "No market_listings_mean for EV"} THEN "Blending"
  ELSE IF tag = "Dealer purchase price computed" THEN "DealerPricing"
  ELSE "EngineComputing"

\* the place of a state in the pipeline
C20_Rank(state) ==
  CASE state = "Idle" -> 0
    [] state = "Normalizing" -> 1
    [] state = "RoutingEngine" -> 2
    [] state = "EngineComputing" -> 3
    [] state = "Blending" -> 4
    [] state = "DealerPricing" -> 5
    [] state \in {"Done", "Error"} -> 6

\* a call begins or is over
C20_CallBoundary == pc' = "Normalizing" \/ pc' = "Idle"

\* within a call the log keeps what it has
C20_LogAppended ==
  /\ Len(log') >= Len(log)
  /\ SubSeq(log', 1, Len(log)) = log

\* what a step adds to the log is of the stage the step leaves
C20_NewEntriesOfStage ==
  \A i \in (Len(log) + 1)..Len(log') : C20_Stage(log'[i].tag) = pc

\* the entries of the log are in pipeline order
C20_LogInPipelineOrder ==
  \A i, j \in 1..Len(log) :
    i < j => C20_Rank(C20_Stage(log[i].tag)) <= C20_Rank(C20_Stage(log[j].tag))

\* a successful call: the dealer-pricing entry is the last one and the only one
C20_DealerEntryLastAndSingle ==
  pc = "Done" =>
    /\ Len(log) >= 1
    /\ \A i \in 1..Len(log) :
         (log[i].tag = "Dealer purchase price computed") <=> (i = Len(log))
    /\ log = Val(out).breakdown_log.steps

\* the dealer-pricing entry is written by a step that found the retail value
C20_DealerEntryAfterRetail ==
  (\E i \in (Len(log) + 1)..Len(log') : log'[i].tag = "Dealer purchase price computed")
    => /\ pc = "DealerPricing"
       /\ ~IsNone(blend.result)
       /\ Val(blend.result).fair_market_retail_value
            = Val(out').pricing.fair_market_retail_value

\* what the claim says of the log
C20_LogRules ==
  /\ ~C20_CallBoundary => C20_LogAppended /\ C20_NewEntriesOfStage
  /\ C20_LogInPipelineOrder'
  /\ C20_DealerEntryLastAndSingle'
  /\ C20_DealerEntryAfterRetail

\* the one successor each state has in Normalizing, RoutingEngine,
\* EngineComputing, Blending, DealerPricing, Done
C20_StrictSuccessor ==
  \/ pc = "Idle" /\ pc' = "Normalizing"
  \/ pc = "Normalizing" /\ pc' = "RoutingEngine"
  \/ pc = "RoutingEngine" /\ pc' = "EngineComputing"
  \/ pc = "EngineComputing" /\ pc' = "Blending"
  \/ pc = "Blending" /\ pc' = "DealerPricing"
  \/ pc = "DealerPricing" /\ pc' = "Done"
  \/ pc = "Done" /\ pc' = "Idle"

\* C20 as stated: every call moves through Normalizing, RoutingEngine,
\* EngineComputing, Blending, DealerPricing, Done in that order, and the log
\* rules hold.  The scrap return and the ValueError leave EngineComputing
\* without passing Blending.
C20_EveryCallPassesEveryState == [][C20_StrictSuccessor /\ C20_LogRules]_vars

\* the scrap return of ice_engine: the result is there when EngineComputing is left
C20_ScrapShortCircuit ==
  /\ pc = "EngineComputing" /\ pc' = "DealerPricing"
  /\ route.engine_used = "ICE"
  /\ eng'.scrap
  /\ IsNcrScrap(payload, metrics.age_years)
  /\ Val(blend'.result).fair_market_retail_value = ScrapValue(payload)

\* the ValueError of an engine: no entry, no result
C20_TerminalError ==
  /\ pc = "EngineComputing" /\ pc' = "Error"
  /\ log' = log
  /\ IsNone(blend'.result) /\ IsNone(out') /\ ~dealer'.computed
  /\ \/ route.engine_used = "EV" /\ IsNone(payload.battery_capacity_kwh)
     \/ /\ route.engine_used = "ICE"
        /\ IsNone(payload.historical_onroad_price)
        /\ IsNone(payload.current_ex_showroom)

\* C20 (amended): every value_vehicle call moves through Normalizing,
\* RoutingEngine and EngineComputing in that order; EngineComputing is followed
\* by Blending and then DealerPricing, or by DealerPricing at once when
\* ice_engine returns the NCR diesel scrap value, or by the error of a missing
\* required input, which ends the call with no result; DealerPricing is followed
\* by Done; no state is revisited within a call.  The audit log grows only by
\* appending within a call, its entries are in pipeline order, and in every
\* successful call the dealer-pricing entry is the single final entry, written
\* by the step that was given the engine's retail value.
C20_PipelineOrder ==
  [][ /\ \/ C20_StrictSuccessor
         \/ C20_ScrapShortCircuit
         \/ C20_TerminalError
         \/ pc = "Error" /\ pc' = "Idle"
      /\ C20_Rank(pc') > C20_Rank(pc) \/ pc' = "Idle"
      /\ C20_LogRules ]_vars

\* a successful call that passed Blending with a market mean, its log holding
\* entries of normalization, engine, blending and dealer pricing
C20_Witness ==
  /\ pc = "Done"
  /\ blend.market_used
  /\ \E i \in 1..Len(log) : C20_Stage(log[i].tag) = "Normalizing"
  /\ \E i \in 1..Len(log) : C20_Stage(log[i].tag) = "EngineComputing"
  /\ \E i \in 1..Len(log) : C20_Stage(log[i].tag) = "Blending"
  /\ log[Len(log)].tag = "Dealer purchase price computed"

\* a blend with a market mean has just been made
C22_Blended == pc \in {"DealerPricing", "Done"} /\ blend.market_used

\* C22: the base market weight before any divergence reduction is 0.7 for
\* age < 3 years, 0.6 for 3 <= age <= 6 years and 0.5 for age > 6 years in
\* ice_engine, and 0.6 for age < 3 years and 0.5 otherwise in ev_engine; in
\* either engine it does not increase with age.
C22_BaseWeightTiers ==
  C22_Blended =>
    /\ route.engine_used = "ICE" =>
         blend.base_weight = (IF metrics.age_months < 36 THEN 700000
                              ELSE IF metrics.age_months <= 72 THEN 600000
                              ELSE 500000)
    /\ route.engine_used = "EV" =>
         blend.base_weight = (IF metrics.age_months < 36 THEN 600000 ELSE 500000)
    /\ \A m \in 0..metrics.age_months :
         /\ IceBaseWeight(RoundDiv(m * Milli, 12)) >= IceBaseWeight(metrics.age_years)
         /\ EvBaseWeight(RoundDiv(m * Milli, 12)) >= EvBaseWeight(metrics.age_years)

\* an ICE blend at exactly 6 years, in the middle tier
C22_Witness ==
  /\ C22_Blended
  /\ pc = "Done"
  /\ route.engine_used = "ICE"
  /\ metrics.age_months = 72
  /\ blend.base_weight = 600000

\* ice_engine has computed a book value in this call
C23_IceComputed == route.engine_used = "ICE" /\ ~IsNone(eng.base_depr_pct)

\* the book value that enters the mileage step (line 122)
C23_GridBook == Scale(eng.hist_onroad, PPM - Val(eng.base_depr_pct))

\* what the mileage step is said to do to a book value, at one average
\* annual running: 0.6% less per 1,000 km above 12,000 km, 0.4% more per
\* 1,000 km below it
C23_Stated(book, avg) ==
  IF avg > 12000 THEN Scale(book, PPM - (avg - 12000) * 6)
  ELSE IF avg < 12000 THEN Scale(book, PPM + (12000 - avg) * 4)
  ELSE book

\* average annual runnings around the baseline and out to the largest
C23_Runnings == {0, 4000, 10000, 11999, 12000, 12001, 16000, 25000, MaxOdometerKm}

\* C23: the mileage step of ice_engine lowers the book value by 0.6% per
\* 1,000 km of average annual running above the 12,000 km baseline, raises it
\* by 0.4% per 1,000 km below the baseline and leaves it unchanged at the
\* baseline, so the book value after the step never increases when the
\* average annual running increases.
C23_MileageStep ==
  C23_IceComputed =>
    LET avg == metrics.avg_annual_running
        after == Scale(C23_GridBook, IceMileageFactor(avg))
    IN  /\ after = C23_Stated(C23_GridBook, avg)
        /\ (MakeModel(payload) \notin DISCONTINUED_DB \cup NEW_GEN_DB) =>
             eng.pre_ncr = after
        /\ \E i \in 1..Len(log) :
             /\ log[i].tag = (IF avg > 12000 THEN "High usage adjustment"
                              ELSE "Low usage adjustment")
             /\ log[i].b = avg
        /\ \A a \in C23_Runnings :
             /\ a >= avg => C23_Stated(C23_GridBook, a) <= after
             /\ a <= avg => C23_Stated(C23_GridBook, a) >= after
             /\ Scale(C23_GridBook, IceMileageFactor(a)) = C23_Stated(C23_GridBook, a)

\* a petrol car run 25,000 km a year has lost 7.8% of its book value in
\* the step
C23_Witness ==
  /\ pc = "Done"
  /\ C23_IceComputed
  /\ metrics.avg_annual_running = 25000
  /\ eng.pre_ncr = Scale(C23_GridBook, 922000)
  /\ eng.pre_ncr < C23_GridBook

\* ev_engine has computed a battery value in this call
C24_EvComputed == route.engine_used = "EV" /\ ~IsNone(eng.soh)

\* the replacement cost of line 241
C24_ReplacementCost == eng.cost_per_kwh * Val(payload.battery_capacity_kwh)

\* steps 4 to 6 of ev_engine applied to a battery running value
C24_AfterCliff(brv) ==
  LET ranged == Scale(brv, EvRangeFactor(payload))
      chem == IF Chemistry(payload) = <<"N","M","C">> THEN Scale(ranged, PPM - 30000)
              ELSE ranged
  IN  Max2(Scale(chem, PPM - 100000), 0)

C25_Normalized == pc \notin {"Idle", "Normalizing"}

\* C25: for every payload, value_vehicle computes avg_annual_running as the
\* odometer divided by age_years with the age floored at 1 year, rounded to an
\* integer, near-new vehicles and age 0 with a supplied odometer included.
C25_AvgAnnualRunning ==
  C25_Normalized =>
    metrics.avg_annual_running =
      RoundDiv(metrics.odometer * Milli, Max2(Milli, metrics.age_years))

\* the part of C25 that the code keeps: the floored quotient for every
\* positive age, an age below one year included
C25_AvgAnnualRunningPositiveAge ==
  (C25_Normalized /\ metrics.age_years > 0) =>
    metrics.avg_annual_running =
      RoundDiv(metrics.odometer * Milli, Max2(Milli, metrics.age_years))

\* a supplied odometer is ignored at age 0: the default 10,000 km is taken
C25_SuppliedOdometerIgnored ==
  /\ pc = "Done"
  /\ metrics.age_years = 0
  /\ payload.odometer = Some(96000)
  /\ metrics.odometer = 96000
  /\ metrics.avg_annual_running = default_avg_annual_km

\* C27: whenever ice_engine or ev_engine blends with a market mean, the final
\* market weight lies in [0.3, 0.7] and the blended value lies between the
\* smaller and the larger of the intrinsic value and the market mean,
\* both included.
C27_BlendBounded ==
  C22_Blended =>
    /\ blend.m_w >= 300000
    /\ blend.m_w <= 700000
    /\ blend.blended >= Min2(eng.book_value, blend.market)
    /\ blend.blended <= Max2(eng.book_value, blend.market)
    /\ blend.market = Val(payload.market_listings_mean) * Paise
    /\ \E i \in 1..Len(log) :
         /\ log[i].tag \in {"Blended market", "Blended EV value"}
         /\ log[i].a = blend.m_w
         /\ log[i].b = blend.blended

\* an electric car of 3 years or more whose market mean diverges is blended
\* at the lowest weight, 0.3, strictly between the two values
C27_Witness ==
  /\ pc = "Done"
  /\ C22_Blended
  /\ route.engine_used = "EV"
  /\ blend.reduced
  /\ blend.m_w = 300000
  /\ blend.blended > Min2(eng.book_value, blend.market)
  /\ blend.blended < Max2(eng.book_value, blend.market)

\* the call was made without an odometer and the estimate of line 323 is in
\* the metrics
C28_Estimated == C25_Normalized /\ IsNone(payload.odometer)

C21_EndedLikeAlone(f) ==
  f.pc \in {"Done", "Error"} /\ ~IsNone(seen) /\ Val(seen).payload = f.payload

\* the frame holds what the call made alone gave: outcome, record and log
C21_SameAsAlone(f) ==
  /\ f.pc = Val(seen).pc
  /\ f.out = Val(seen).out
  /\ f.log = Val(seen).log

\* C21: no valuation call writes shared state, so in every interleaving of
\* concurrent value_vehicle calls each call returns the record and the log it
\* returns when run alone, with no entry of another call in its log, and its
\* payload is the one it was called with.
C21_IsolatedCalls ==
  /\ C21_EndedLikeAlone(Frame) => C21_SameAsAlone(Frame)
  /\ (~IsNone(parked) /\ C21_EndedLikeAlone(Val(parked))) => C21_SameAsAlone(Val(parked))
  /\ (~IsNone(parked) /\ pc = "Done") => log = Val(out).breakdown_log.steps

\* a call has ended after the other thread ran in between: the other call
\* is past its engine and not yet done, and this one gave what it gives alone
C21_Witness ==
  /\ ~IsNone(parked)
  /\ pc = "Done"
  /\ Val(parked).pc = "DealerPricing"
  /\ Val(parked).payload # payload
  /\ Len(Val(parked).log) > 0
  /\ C21_EndedLikeAlone(Frame)
  /\ C21_SameAsAlone(Frame)

\* the three lookups of one age have been made
C29_AllLooked ==
  /\ ~IsNone(grids)
  /\ ~IsNone(Val(grids).dual)
  /\ ~IsNone(Val(grids).resale)
  /\ ~IsNone(Val(grids).gemini)

\* the ages at which a bucket ends, in months
C29_Breakpoints == {6, 12, 24, 36, 48, 60, 72, 84, 96}

\* C29: for every age in whole months m >= 0 the three implementations of the
\* 5%-to-60% grid return the same base depreciation: choose_depr_from_grid(m/12),
\* the age ladder of calculate_resale_value and the month-bucket correction of
\* GeminiIDVEngine._validate_idv.
C29_ThreeGridsAgree ==
  C29_AllLooked =>
    /\ Val(grids).dual = Val(grids).resale
    /\ Val(grids).dual = Val(grids).gemini

\* C29 as the code has it: choose_depr_from_grid and _validate_idv always
\* agree (a bucket includes its upper end); the ladder of
\* calculate_resale_value agrees with them at every age that is not the end of
\* a bucket and, at 6, 12, 24, 36, 48, 60, 72, 84 and 96 months, returns the
\* next, higher step.
C29_GridsAgreeOffBreakpoints ==
  C29_AllLooked =>
    LET m == Val(grids).months
    IN  /\ Val(grids).dual = Val(grids).gemini
        /\ m \notin C29_Breakpoints => Val(grids).resale = Val(grids).dual
        /\ m \in C29_Breakpoints =>
             /\ Val(Val(grids).resale) > Val(Val(grids).dual)
             /\ Val(grids).resale = Some(choose_depr_from_grid(RoundDiv((m + 1) * Milli, 12)))

\* at 12 months the dual engine and the correction give 10%, the ladder 18%
C29_Witness ==
  /\ C29_AllLooked
  /\ Val(grids).months = 12
  /\ Val(grids).dual = Some(100000)
  /\ Val(grids).gemini = Some(100000)
  /\ Val(grids).resale = Some(180000)

\* the engine has returned a dict for the call
C26_Returned ==
  /\ ~IsNone(insurance)
  /\ ~IsNone(Val(insurance).result)
  /\ ~Val(Val(insurance).result).raised

C26_Result == Val(Val(Val(insurance).result).result)

\* C26: calculate_idv of the insurance-grade engine returns
\* MARKET_REFRESH_REQUIRED, with no final_idv, exactly when
\* market_cache_age_days is above 45; the gate comes before every other
\* check, so a stale cache with missing ex-showroom prices gives
\* MARKET_REFRESH_REQUIRED and not ERROR, and a cache of exactly 45 days
\* is accepted.
C26_MarketCacheGate ==
  /\ (~IsNone(insurance) /\ ~IsNone(Val(insurance).result)) =>
       LET d == Val(insurance).input_data
           stale == ~IsNone(d.market_cache_age_days) /\ Val(d.market_cache_age_days) >= 46
       IN  /\ stale => C26_Returned
           /\ C26_Returned =>
                /\ C26_Result.status = "MARKET_REFRESH_REQUIRED" <=> stale
                /\ C26_Result.status = "MARKET_REFRESH_REQUIRED" => IsNone(C26_Result.final_idv)

\* a cache of 46 days without ex-showroom prices and without a
\* manufacturing date is refused for its age
C26_Witness ==
  /\ C26_Returned
  /\ Val(insurance).input_data.market_cache_age_days = Some(46)
  /\ IsNone(Val(insurance).input_data.base_ex_showroom)
  /\ IsNone(Val(insurance).input_data.manufacturing_year)
  /\ C26_Result.status = "MARKET_REFRESH_REQUIRED"
  /\ IsNone(C26_Result.final_idv)

\* C30: every SUCCESS of calculate_idv with a non-negative
\* market_listings_mean and positive ex-showroom prices has a final_idv that
\* is a non-negative multiple of 1000, at every age in months and every
\* owner count.
C30_FinalIdvNonNegative ==
  (C26_Returned /\ C26_Result.status = "SUCCESS") =>
    /\ Val(C26_Result.final_idv) >= 0
    /\ Val(C26_Result.final_idv) % 1000 = 0

\* what holds of every SUCCESS: a multiple of 1000, not negative up to 125
\* months of age
C30_FinalIdvMultiple ==
  (C26_Returned /\ C26_Result.status = "SUCCESS") =>
    /\ Val(C26_Result.final_idv) % 1000 = 0
    /\ Val(C26_Result.months_old) <= 125 => Val(C26_Result.final_idv) >= 0

\* a first-owner car of 130 months is given a negative final_idv
C30_NegativeIdv ==
  /\ C26_Returned
  /\ C26_Result.status = "SUCCESS"
  /\ C26_Result.months_old = Some(130)
  /\ Val(insurance).input_data.market_listings_mean = Some(1326250)
  /\ Val(insurance).input_data.base_ex_showroom = Some(1100000)
  /\ IsNone(Val(insurance).input_data.owner_count)
  /\ C26_Result.final_idv = Some(-80000)

====
